---- MODULE Spec2Model ----
(***************************************************************************)
(* gzp: parallel block compression (src/src/par/compress.rs) and parallel  *)
(* block decompression (src/src/par/decompress.rs) as state machines.      *)
(*                                                                         *)
(* Threads of the compressor: the producer (the caller of write, flush and *)
(* finish), the coordinator (ParCompress::run, which owns the sink) and    *)
(* num_threads compression workers.  Channels are flume channels: a        *)
(* bounded send blocks while the queue is full and fails once every        *)
(* receiver is dropped; a recv blocks while the queue is empty and fails   *)
(* once it is empty and every sender is dropped.                           *)
(*                                                                         *)
(* Bytes are numbered: the k-th byte the caller ever offers has value k,   *)
(* so that a lost, duplicated or reordered byte is visible.  Sizes are     *)
(* scaled down (DICT_SIZE and buffer_size count model bytes).              *)
(***************************************************************************)
EXTENDS Naturals, Sequences, FiniteSets, TLC

\* ------------------------------------------------------------------ bounds
\* DICT_SIZE of lib.rs, scaled down to model bytes.
DICT_SIZE == 2
\* Total number of bytes the caller offers over all write calls.
MaxInput == 5
\* Longest buffer of one write call.
MaxWrite == MaxInput
\* The size of a full BGZF block (bgzf.rs:20, 65280 in the source), which is
\* the blocksize of the synchronous BGZF writer (bgzf.rs:116).
BGZF_BLOCK_SIZE == 2

\* Number of flush calls the caller makes at most.
MaxFlush == 1
\* Number of public calls made after the first finish call at most.
MaxLate == 1

\* ------------------------------------------------------------ error values
\* Every error is a record [variant, kind, inner].  A std::io::Error has
\* variant "Io", its ErrorKind in kind and, when it wraps another error
\* (io::Error::new(Other, e)), that error's name in inner.
NoErr == [variant |-> "none", kind |-> "-", inner |-> "-"]
GzpErr(v) == [variant |-> v, kind |-> "-", inner |-> "-"]
IoErr(k, i) == [variant |-> "Io", kind |-> k, inner |-> i]
\* The kinds of I/O error the sink may answer a write or a flush with.
SinkErrorKinds == {"BrokenPipe"}
\* The errors FormatSpec::encode may return (flate2::CompressError, or
\* BlockSizeExceeded for BGZF).
CodecErrors == {"DeflateCompress"}
\* The error FormatSpec::create_compressor returns for a level the codec
\* rejects (libdeflate only).
CreateError == "LibDeflaterCompressionLvl"

\* GzpError -> io::Error as ParCompress::write converts the coordinator's
\* error after a failed send (compress.rs:348-352, 365-369).
JoinErrorToIo(e) ==
    IF e.variant = "Io" THEN e ELSE IoErr("Other", e.variant)

\* io::Error -> GzpError by From (lib.rs:142-143): the `?` of finish.
IoToGzp(e) == e

\* The error flush_last maps a failed send to (compress.rs:265, 270).
SendErrorToIo == IoErr("Other", "SendError")

\* ------------------------------------------------------------- sequences
None == <<>>

Suffix(s, n) == SubSeq(s, Len(s) - n + 1, Len(s))

Min(a, b) == IF a <= b THEN a ELSE b

RECURSIVE Concat(_)
Concat(ss) == IF ss = <<>> THEN <<>> ELSE Head(ss) \o Concat(Tail(ss))

\* ---------------------------------------------------------------- formats
\* The formats modelled: Gzip is a streaming format (one header, one
\* trailer, running CRC32, 32 KiB dictionary carry-over with the any_zlib
\* feature); Bgzf is block-framed (no stream header or trailer, no
\* dictionary, PassThroughCheck).
Formats == {"Gzip", "Bgzf"}

needs_dict(f) == f = "Gzip"

\* ----------------------------------------------------------------- checks
\* Check values are records [sum, amount].  The CRC is abstracted by a
\* polynomial hash, which like CRC-32 depends on the order of the bytes
\* and has a combine that needs the length of the right operand.
RECURSIVE Pow3(_)
Pow3(n) == IF n = 0 THEN 1 ELSE (3 * Pow3(n - 1)) % 251

RECURSIVE CrcOf(_, _)
CrcOf(sum, bytes) ==
    IF bytes = <<>> THEN sum
    ELSE CrcOf((sum * 3 + Head(bytes)) % 251, Tail(bytes))

create_check(f) == [sum |-> 0, amount |-> 0]

\* Check::update: Crc32 for Gzip (check.rs:163-166), PassThroughCheck for
\* Bgzf (ignores the bytes).
check_update(f, c, bytes) ==
    IF f = "Gzip"
    THEN [sum |-> CrcOf(c.sum, bytes), amount |-> c.amount + Len(bytes)]
    ELSE c

\* Check::combine, self.combine(&other) (check.rs:168-171).
check_combine(f, c, other) ==
    IF f = "Gzip"
    THEN [sum |-> (c.sum * Pow3(other.amount) + other.sum) % 251,
          amount |-> c.amount + other.amount]
    ELSE c

\* ------------------------------------------------------- header, trailer
\* What the coordinator writes to the sink: items [kind, id, data, dict,
\* last, check].  id is the dispatch number of the block an item encodes
\* (0 for header and trailer).
HeaderItem(f) ==
    [kind |-> "header", id |-> 0, data |-> <<>>, dict |-> None,
     last |-> FALSE, check |-> create_check(f)]

FooterItem(f, c) ==
    [kind |-> "footer", id |-> 0, data |-> <<>>, dict |-> None,
     last |-> FALSE, check |-> c]

\* FormatSpec::encode: the compressed form of a block.  A DEFLATE block
\* compressed with a preset dictionary refers to the dictionary's bytes, so
\* the encoded block carries the dictionary it was compressed against; the
\* last block is closed with Finish (deflate.rs:96-106).
Encode(f, m) ==
    [kind |-> "block", id |-> m.id, data |-> m.buffer, dict |-> m.dictionary,
     last |-> m.is_last, check |-> create_check(f)]

\* The block items among the items of a sink.
SinkBlocksOf(items) == SelectSeq(items, LAMBDA it : it.kind = "block")

\* ------------------------------------------------------------------ state
VARIABLES
    config,         \* [backend, format, num_threads, buffer_size, level_ok]
    buffer,         \* ParCompress.buffer: the ingest accumulator
    dictionary,     \* ParCompress.dictionary: None or the last DICT_SIZE bytes
    tx_writer,      \* ParCompress.tx_writer is Some
    tx_compressor,  \* ParCompress.tx_compressor is Some
    handle,         \* ParCompress.handle is Some
    writer_q,       \* the writer channel: reply receivers (by id), in send order
    comp_q,         \* the compressor channel: Messages, in send order
    oneshot,        \* oneshot[id]: the reply channel of Message id
    coord,          \* the coordinator thread (ParCompress::run)
    workers,        \* the compression worker threads
    sink,           \* the sink W: [items, flushed]
    call,           \* the public call the producer is executing
    ret,            \* how the latest completed public call returned
    offered,        \* number of bytes handed to write calls so far
    accepted,       \* number of bytes of the write calls that returned Ok
    calls,          \* [flushes, late, finished, dropped]: the calls made so far
    dispatched,     \* history: the Messages sent on the compressor channel
    sent_r,         \* history: the receivers sent on the writer channel, by id
    inner           \* SyncZ.inner: the wrapped stream encoder, or gone

cvars == <<config, buffer, dictionary, tx_writer, tx_compressor, handle,
           writer_q, comp_q, oneshot, coord, workers, sink, call, ret,
           offered, accepted, calls, dispatched, sent_r, inner>>

\* The state of the parallel decompressor (par/decompress.rs).
VARIABLES
    d_config,       \* [num_threads], set by ParDecompressBuilder
    source,         \* the source R: the kinds of its blocks, in order
    tx_reader_q,    \* the result channel (tx_reader, rx_reader): receivers by id
    tx_q,           \* the work channel (tx, rx): DMessages by id
    d_oneshot,      \* d_oneshot[id]: the reply channel of DMessage id
    d_coord,        \* the reader thread (ParDecompress::run)
    d_workers,      \* the decompression worker threads
    rx_reader,      \* ParDecompress.rx_reader is Some
    d_handle,       \* ParDecompress.handle is Some
    d_buffer,       \* ParDecompress.buffer: the block being handed out
    d_call,         \* the read call the consumer is executing
    d_ret,          \* how the latest completed read call returned
    delivered,      \* history: the bytes the Ok reads have returned, in order
    reads           \* number of read calls made after the stream had ended

dvars == <<d_config, source, tx_reader_q, tx_q, d_oneshot, d_coord, d_workers,
           rx_reader, d_handle, d_buffer, d_call, d_ret, delivered, reads>>

\* A call of check_header on its own: the format, the header bytes it is
\* given and its result.
VARIABLES
    h_format,       \* the block format whose check_header is called
    h_bytes,        \* its argument: [id1, id2, flg, si1, si2]
    h_result        \* its result, Unchecked before the call

hvars == <<h_format, h_bytes, h_result>>

\* A call of one of the other functions of the crate on its own.
VARIABLES
    p_call,         \* the function called and its arguments: [fn, ...]
    p_result        \* its result, Uncalled before the call

pvars == <<p_call, p_result>>

vars == <<cvars, dvars, hvars, pvars>>

Uncalled == [res |-> "uncalled"]

\* The state before the function of call c is called.
pure_call(c) ==
    /\ p_call = c
    /\ p_result = Uncalled

\* No such call is made.
NoCall == [fn |-> "none"]

\* The block sizes of the parallel writer: ParCompressBuilder::buffer_size
\* rejects a size below DICT_SIZE (compress.rs:67-73).
BufferSizes == {DICT_SIZE, DICT_SIZE + 1}

\* The worker counts of the parallel writer: ParCompressBuilder::num_threads
\* rejects 0 (compress.rs:83-89).
ThreadCounts == {1, 2}

\* The configurations a writer is built with: a ParCompress from its own
\* builder, or the SyncZ that ZBuilder::from_writer returns unless
\* num_threads > 1 (lib.rs:239-256).
\* level_ok: create_compressor accepts the compression level.  Only the
\* libdeflate compressor of Bgzf checks the level (deflate.rs:594-609);
\* Gzip's Compress::new cannot fail (deflate.rs:72-77).
ParConfigs ==
    {c \in [backend : {"ParCompress"}, format : Formats,
            num_threads : ThreadCounts, buffer_size : BufferSizes,
            level_ok : BOOLEAN] :
        c.level_ok \/ c.format = "Bgzf"}

\* A faulty variant: a parallel writer is built for one thread as well.
ZBuilder_from_writer_one(f, n, b, ok) ==
    IF n > 0
    THEN [backend |-> "ParCompress", format |-> f, num_threads |-> n,
          buffer_size |-> b, level_ok |-> ok]
    ELSE [backend |-> "SyncZ", format |-> f, num_threads |-> n,
          buffer_size |-> IF f = "Bgzf" THEN BGZF_BLOCK_SIZE ELSE DICT_SIZE,
          level_ok |-> TRUE]

\* ZBuilder::from_writer (lib.rs:235-257) with format f, num_threads n,
\* buffer_size b and a level create_compressor accepts or not: the writer it
\* returns.  The synchronous writer takes the level only; the blocksize of
\* the BGZF one is BGZF_BLOCK_SIZE (bgzf.rs:116).
ZBuilder_from_writer(f, n, b, ok) ==
    IF n > 1
    THEN [backend |-> "ParCompress", format |-> f, num_threads |-> n,
          buffer_size |-> b, level_ok |-> ok]
    ELSE [backend |-> "SyncZ", format |-> f, num_threads |-> n,
          buffer_size |-> IF f = "Bgzf" THEN BGZF_BLOCK_SIZE ELSE DICT_SIZE,
          level_ok |-> TRUE]

\* The worker counts ZBuilder::num_threads is given (lib.rs:215-218, any
\* usize).
ZThreadCounts == {0, 1, 2}

ZConfigs ==
    {ZBuilder_from_writer(z.f, z.n, z.b, z.ok) :
        z \in {y \in [f : Formats, n : ZThreadCounts, b : BufferSizes, ok : BOOLEAN] :
                  y.ok \/ y.f = "Bgzf"}}

\* The writers that are run.  Two workers are run at the smallest block
\* size, and on Bgzf where create_compressor fails: past encode the
\* pipeline treats the two formats alike.
Configs ==
    {c \in ParConfigs \cup ZConfigs :
        \/ c.num_threads < 2
        \/ /\ c.buffer_size = DICT_SIZE
           /\ c.format = "Gzip" \/ ~c.level_ok}

buffer_size == config.buffer_size

Workers == IF config.backend = "ParCompress" THEN 1..config.num_threads ELSE {}

\* A faulty variant: the channels hold one message more.
ChannelCapPlusOne == config.num_threads * 2 + 1

\* bounded(self.num_threads * 2) (compress.rs:105-106)
ChannelCap == config.num_threads * 2

NoItem ==
    [kind |-> "none", id |-> 0, data |-> <<>>, dict |-> None,
     last |-> FALSE, check |-> [sum |-> 0, amount |-> 0]]

NoMsg == [id |-> 0, buffer |-> <<>>, dictionary |-> None, is_last |-> FALSE]

\* Message::new_parts (lib.rs:290-304): the message and an open oneshot.
NewMessage(id, b, dict, is_last) ==
    [id |-> id, buffer |-> b, dictionary |-> dict, is_last |-> is_last]

OpenOneshot == [st |-> "open", check |-> [sum |-> 0, amount |-> 0], chunk |-> NoItem]

IdleCall == [op |-> "none", pc |-> "idle", m |-> NoMsg, n |-> 0, wf |-> FALSE]

NoRet ==
    [op |-> "none", res |-> "none", err |-> NoErr, n |-> 0,
     priorErr |-> FALSE, afterFail |-> FALSE,
     prevOp |-> "none", prevRes |-> "none"]
\* priorErr: an earlier public call had returned an error; afterFail: a
\* worker had failed encoding a block when the call was made; prevOp and
\* prevRes: the call completed before this one and how it ended.

IsPar == config.backend = "ParCompress"

\* A worker has returned an error from its thread.
WorkerFailed == \E w \in Workers : workers[w].pc = "exit" /\ workers[w].result # NoErr

\* A worker has failed encoding a block.
EncodeFailed ==
    \E w \in Workers : workers[w].pc = "exit" /\ workers[w].result.variant \in CodecErrors

\* The writer channel's only receiver lives in the coordinator's closure.
WriterRxAlive == coord.pc # "done"

\* Receivers of the compressor channel: the closure's and one clone per
\* worker thread (compress.rs:113, 184).
CompRxAlive == coord.pc # "done" \/ \E w \in Workers : workers[w].pc # "exit"

\* ParCompressBuilder::from_writer (compress.rs:104-131) with configuration
\* c: the state of a writer just built.
from_writer(c) ==
    /\ config = c
    /\ buffer = <<>>
    /\ dictionary = None
    /\ tx_writer = TRUE
    /\ tx_compressor = TRUE
    /\ handle = TRUE
    /\ writer_q = <<>>
    /\ comp_q = <<>>
    /\ oneshot = <<>>
    /\ coord = [pc |-> "header", cur |-> 0,
                running_check |-> create_check(c.format), result |-> NoErr]
    \* A worker whose create_compressor succeeds does nothing another thread
    \* can see before its first recv: it starts there.
    /\ workers = [w \in (IF c.backend = "ParCompress"
                           THEN 1..c.num_threads ELSE {}) |->
                    [pc |-> IF c.level_ok THEN "recv" ELSE "create",
                     m |-> NoMsg, result |-> NoErr]]
    /\ sink = [items |-> <<>>, flushed |-> FALSE]
    /\ call = IdleCall
    /\ ret = NoRet
    /\ offered = 0
    /\ accepted = 0
    /\ calls = [flushes |-> 0, late |-> 0, finished |-> FALSE, dropped |-> FALSE]
    /\ dispatched = <<>>
    /\ sent_r = <<>>
    /\ inner = TRUE

\* ------------------------------------------------------------- the producer
threadVars == <<writer_q, comp_q, coord, workers, sink, dispatched, sent_r>>

\* A public call returns.
Return(op, res, err, n, wf) ==
    /\ ret' = [op |-> op, res |-> res, err |-> err, n |-> n,
               priorErr |-> (ret.priorErr \/ ret.res = "err"),
               afterFail |-> wf, prevOp |-> ret.op, prevRes |-> ret.res]
    /\ accepted' = IF op = "write" /\ res = "ok" THEN accepted + n ELSE accepted

\* A public call panics (an unwrap of None, or resume_unwind): the caller's
\* thread unwinds and makes no further call.
PanicWith(op, e) ==
    /\ call' = [IdleCall EXCEPT !.op = op, !.pc = "panicked"]
    /\ ret' = [op |-> op, res |-> "panic", err |-> e, n |-> 0,
               priorErr |-> (ret.priorErr \/ ret.res = "err"),
               afterFail |-> call.wf, prevOp |-> ret.op, prevRes |-> ret.res]
    /\ UNCHANGED accepted

\* A panic that carries no error value: an unwrap of None, a resume_unwind.
Panic(op) == PanicWith(op, NoErr)

\* A faulty variant: the whole accumulator is sent as one block.
WriteLoopAll(b, n, wf) ==
    IF Len(b) > buffer_size
    THEN LET blk == b
             id == Len(oneshot) + 1
         IN /\ buffer' = <<>>
            /\ dictionary' = IF needs_dict(config.format)
                             THEN Suffix(blk, DICT_SIZE) ELSE None
            /\ oneshot' = Append(oneshot, OpenOneshot)
            /\ call' = [op |-> "write", pc |-> "send_r",
                        m |-> NewMessage(id, blk, dictionary, FALSE),
                        n |-> n, wf |-> wf]
            /\ UNCHANGED <<ret, accepted>>
    ELSE /\ buffer' = b
         /\ call' = IdleCall
         /\ Return("write", "ok", NoErr, n, wf)
         /\ UNCHANGED <<dictionary, oneshot>>

\* A faulty variant: a block is split off as soon as buffer_size bytes are
\* buffered.
WriteLoopGe(b, n, wf) ==
    IF Len(b) >= buffer_size
    THEN LET blk == SubSeq(b, 1, buffer_size)
             id == Len(oneshot) + 1
         IN /\ buffer' = SubSeq(b, buffer_size + 1, Len(b))
            /\ dictionary' = IF needs_dict(config.format)
                             THEN Suffix(blk, DICT_SIZE) ELSE None
            /\ oneshot' = Append(oneshot, OpenOneshot)
            /\ call' = [op |-> "write", pc |-> "send_r",
                        m |-> NewMessage(id, blk, dictionary, FALSE),
                        n |-> n, wf |-> wf]
            /\ UNCHANGED <<ret, accepted>>
    ELSE /\ buffer' = b
         /\ call' = IdleCall
         /\ Return("write", "ok", NoErr, n, wf)
         /\ UNCHANGED <<dictionary, oneshot>>

\* A faulty variant: a job carries the tail of its own block as dictionary.
WriteLoopOwnDict(b, n, wf) ==
    IF Len(b) > buffer_size
    THEN LET blk == SubSeq(b, 1, buffer_size)
             id == Len(oneshot) + 1
         IN /\ buffer' = SubSeq(b, buffer_size + 1, Len(b))
            /\ dictionary' = IF needs_dict(config.format)
                             THEN Suffix(blk, DICT_SIZE) ELSE None
            /\ oneshot' = Append(oneshot, OpenOneshot)
            /\ call' = [op |-> "write", pc |-> "send_r",
                        m |-> NewMessage(id, blk, dictionary', FALSE),
                        n |-> n, wf |-> wf]
            /\ UNCHANGED <<ret, accepted>>
    ELSE /\ buffer' = b
         /\ call' = IdleCall
         /\ Return("write", "ok", NoErr, n, wf)
         /\ UNCHANGED <<dictionary, oneshot>>

\* The head of the loop of write (compress.rs:328-336) on accumulator b:
\* split one block off while more than buffer_size bytes are buffered.
WriteLoop(b, n, wf) ==
    IF Len(b) > buffer_size
    THEN LET blk == SubSeq(b, 1, buffer_size)
             id == Len(oneshot) + 1
         IN /\ buffer' = SubSeq(b, buffer_size + 1, Len(b))
            /\ dictionary' = IF needs_dict(config.format)
                             THEN Suffix(blk, DICT_SIZE) ELSE None
            /\ oneshot' = Append(oneshot, OpenOneshot)
            /\ call' = [op |-> "write", pc |-> "send_r",
                        m |-> NewMessage(id, blk, dictionary, FALSE),
                        n |-> n, wf |-> wf]
            /\ UNCHANGED <<ret, accepted>>
    ELSE /\ buffer' = b
         /\ call' = IdleCall
         /\ Return("write", "ok", NoErr, n, wf)
         /\ UNCHANGED <<dictionary, oneshot>>

\* A faulty variant: every block finish sends is marked as the last one.
IsLastBlockAny(op, rest) == op \in {"finish", "drop"}

\* A faulty variant: no block is ever marked as the last one.
IsLastBlockNever(op, rest) == FALSE

\* if is_last && self.buffer.is_empty() { m.is_last = true } (compress.rs:253-255)
IsLastBlock(op, rest) == op \in {"finish", "drop"} /\ rest = <<>>

\* A faulty variant: a block of at most DICT_SIZE bytes is split off and the
\* rest of the accumulator is discarded.
FlushLoopTruncating(b, op, wf) ==
    LET k == Min(Len(b), DICT_SIZE)
        blk == SubSeq(b, 1, k)
        rest == <<>>
        is_last == IsLastBlock(op, rest)
        id == Len(oneshot) + 1
    IN /\ buffer' = rest
       /\ dictionary' = IF Len(blk) >= DICT_SIZE /\ ~is_last
                           /\ needs_dict(config.format)
                        THEN Suffix(blk, DICT_SIZE) ELSE None
       /\ oneshot' = Append(oneshot, OpenOneshot)
       /\ call' = [op |-> op, pc |-> "send_r",
                   m |-> NewMessage(id, blk, dictionary, is_last),
                   n |-> 0, wf |-> wf]
       /\ UNCHANGED <<ret, accepted>>

\* The head of the loop of flush_last (compress.rs:247-259) on accumulator
\* b; op is "flush" (is_last = false), or "finish" or "drop" (is_last = true).
FlushLoop(b, op, wf) ==
    LET k == Min(Len(b), buffer_size)
        blk == SubSeq(b, 1, k)
        rest == SubSeq(b, k + 1, Len(b))
        is_last == IsLastBlock(op, rest)
        id == Len(oneshot) + 1
    IN /\ buffer' = rest
       /\ dictionary' = IF Len(blk) >= DICT_SIZE /\ ~is_last
                           /\ needs_dict(config.format)
                        THEN Suffix(blk, DICT_SIZE) ELSE None
       /\ oneshot' = Append(oneshot, OpenOneshot)
       /\ call' = [op |-> op, pc |-> "send_r",
                   m |-> NewMessage(id, blk, dictionary, is_last),
                   n |-> 0, wf |-> wf]
       /\ UNCHANGED <<ret, accepted>>

\* Calls after the first finish are counted; so are flushes.  A dropped
\* writer takes no further call.
MayCall ==
    /\ call.pc = "idle" /\ ~calls.dropped
    /\ calls.finished => calls.late < MaxLate

Called == [calls EXCEPT !.late = IF calls.finished THEN @ + 1 ELSE @]

\* ParCompress::write (compress.rs:326-376), up to its first send.
StartWrite ==
    /\ IsPar /\ MayCall
    /\ \E n \in 1..MaxWrite :
        /\ offered + n <= MaxInput
        /\ offered' = offered + n
        /\ WriteLoop(buffer \o [i \in 1..n |-> offered + i], n, EncodeFailed)
    /\ calls' = Called
    /\ UNCHANGED <<hvars, pvars, dvars, config, tx_writer, tx_compressor, handle, threadVars, inner>>

\* ParCompress::flush (compress.rs:379-381), up to its first send.
StartFlush ==
    /\ IsPar /\ MayCall
    /\ calls.flushes < MaxFlush
    /\ FlushLoop(buffer, "flush", EncodeFailed)
    /\ calls' = [Called EXCEPT !.flushes = @ + 1]
    /\ UNCHANGED <<hvars, pvars, dvars, config, tx_writer, tx_compressor, handle, threadVars,
                   offered, inner>>

\* ParCompress::finish (compress.rs:292-303), up to its first send.
StartFinish ==
    /\ IsPar /\ MayCall
    /\ FlushLoop(buffer, "finish", EncodeFailed)
    /\ calls' = [Called EXCEPT !.finished = TRUE]
    /\ UNCHANGED <<hvars, pvars, dvars, config, tx_writer, tx_compressor, handle, threadVars,
                   offered, inner>>

\* A faulty variant: the drop never finishes the stream.
DropFinishesNever == FALSE

\* if self.tx_compressor.is_some() && self.tx_writer.is_some()
\*     && self.handle.is_some() (compress.rs:311)
DropFinishes == tx_compressor /\ tx_writer /\ handle

\* Drop for ParCompress (compress.rs:306-316), up to its first send: the
\* writer is dropped without finish having been called on it.
StartDrop ==
    /\ IsPar /\ MayCall /\ ~calls.finished
    /\ IF DropFinishes
       THEN FlushLoop(buffer, "drop", EncodeFailed)
       ELSE /\ call' = IdleCall
            /\ Return("drop", "ok", NoErr, 0, EncodeFailed)
            /\ UNCHANGED <<buffer, dictionary, oneshot>>
    /\ calls' = [calls EXCEPT !.dropped = TRUE]
    /\ UNCHANGED <<hvars, pvars, dvars, config, tx_writer, tx_compressor, handle, threadVars,
                   offered, inner>>

\* The end of finish with result res: returned to the caller, or unwrapped
\* by drop, which panics on an error (compress.rs:313).
FinishReturn(res, err, wf) ==
    IF call.op = "drop" /\ res # "ok"
    THEN Panic("drop")
    ELSE /\ call' = IdleCall
         /\ Return(call.op, res, err, 0, wf)

\* The oneshot of a message that is dropped with its sender unused.
CloseOneshot(id) == [oneshot EXCEPT ![id] = [@ EXCEPT !.st = "closed"]]

\* A send of write has failed: the closure of map_err joins the coordinator
\* and converts its result (compress.rs:341-353, 358-370).
WriteSendFailed ==
    IF ~handle
    THEN /\ Panic("write")                       \* self.handle.take().unwrap()
         /\ UNCHANGED handle
    ELSE /\ handle' = FALSE
         /\ IF coord.result = NoErr
            THEN Panic("write")                  \* Ok(()) => resume_unwind
            ELSE /\ call' = IdleCall
                 /\ Return("write", "err", JoinErrorToIo(coord.result), 0, call.wf)

\* A send of flush_last has failed (compress.rs:265, 270); finish converts
\* the io::Error with `?` (compress.rs:293).
FlushSendFailed ==
    /\ IF call.op = "flush"
       THEN /\ call' = IdleCall
            /\ Return("flush", "err", SendErrorToIo, 0, call.wf)
       ELSE FinishReturn("err", IoToGzp(SendErrorToIo), call.wf)
    /\ UNCHANGED handle

\* A faulty variant: the job is sent without its receiver.
SendRSkipped ==
    /\ call.pc = "send_r"
    /\ IF ~tx_writer
       THEN /\ Panic(call.op)                              \* unwrap of None
            /\ UNCHANGED <<handle, writer_q, oneshot, sent_r>>
       ELSE IF ~WriterRxAlive
       THEN /\ IF call.op = "write" THEN WriteSendFailed ELSE FlushSendFailed
            /\ oneshot' = CloseOneshot(call.m.id)
            /\ UNCHANGED <<writer_q, sent_r>>
       ELSE /\ Len(writer_q) < ChannelCap
            /\ UNCHANGED <<writer_q, sent_r>>
            /\ call' = [call EXCEPT !.pc = "send_m"]
            /\ UNCHANGED <<handle, oneshot, ret, accepted>>
    /\ UNCHANGED <<hvars, pvars, dvars, config, buffer, dictionary, tx_writer, tx_compressor,
                   comp_q, coord, workers, sink, offered, calls, dispatched, inner>>

\* self.tx_writer.as_ref().unwrap().send(r) (compress.rs:261-265, 337-353)
SendR ==
    /\ call.pc = "send_r"
    /\ IF ~tx_writer
       THEN /\ Panic(call.op)                              \* unwrap of None
            /\ UNCHANGED <<handle, writer_q, oneshot, sent_r>>
       ELSE IF ~WriterRxAlive
       THEN /\ IF call.op = "write" THEN WriteSendFailed ELSE FlushSendFailed
            /\ oneshot' = CloseOneshot(call.m.id)
            /\ UNCHANGED <<writer_q, sent_r>>
       ELSE /\ Len(writer_q) < ChannelCap
            /\ writer_q' = Append(writer_q, call.m.id)
            /\ sent_r' = Append(sent_r, call.m.id)
            /\ call' = [call EXCEPT !.pc = "send_m"]
            /\ UNCHANGED <<handle, oneshot, ret, accepted>>
    /\ UNCHANGED <<hvars, pvars, dvars, config, buffer, dictionary, tx_writer, tx_compressor,
                   comp_q, coord, workers, sink, offered, calls, dispatched, inner>>

\* What follows a successful send of the job: the next turn of the loop, or
\* the rest of the call.
AfterSendM ==
    IF call.op = "write"
    THEN /\ WriteLoop(buffer, call.n, call.wf)
         /\ UNCHANGED <<tx_writer, tx_compressor, handle>>
    ELSE IF buffer # <<>>
    THEN /\ FlushLoop(buffer, call.op, call.wf)
         /\ UNCHANGED <<tx_writer, tx_compressor, handle>>
    ELSE IF call.op = "flush"
    THEN /\ call' = IdleCall
         /\ Return("flush", "ok", NoErr, 0, call.wf)
         /\ UNCHANGED <<buffer, dictionary, oneshot, tx_writer, tx_compressor, handle>>
    ELSE \* finish: drop both senders, then join (compress.rs:297-299)
         /\ tx_compressor' = FALSE
         /\ tx_writer' = FALSE
         /\ IF handle
            THEN /\ handle' = FALSE
                 /\ call' = [call EXCEPT !.pc = "join", !.m = NoMsg]
                 /\ UNCHANGED <<ret, accepted>>
            ELSE /\ Panic(call.op)               \* self.handle.take().unwrap()
                 /\ UNCHANGED handle
         /\ UNCHANGED <<buffer, dictionary, oneshot>>

\* self.tx_compressor.as_ref().unwrap().send(m) (compress.rs:266-270, 354-370)
SendM ==
    /\ call.pc = "send_m"
    /\ IF ~tx_compressor
       THEN /\ Panic(call.op)                              \* unwrap of None
            /\ UNCHANGED <<buffer, dictionary, tx_writer, tx_compressor, handle,
                           comp_q, oneshot, dispatched>>
       ELSE IF ~CompRxAlive
       THEN /\ IF call.op = "write" THEN WriteSendFailed ELSE FlushSendFailed
            /\ oneshot' = CloseOneshot(call.m.id)
            /\ UNCHANGED <<buffer, dictionary, tx_writer, tx_compressor, comp_q,
                           dispatched>>
       ELSE /\ Len(comp_q) < ChannelCap
            /\ comp_q' = Append(comp_q, call.m)
            /\ dispatched' = Append(dispatched, call.m)
            /\ AfterSendM
    /\ UNCHANGED <<hvars, pvars, dvars, config, writer_q, coord, workers, sink, offered, calls,
                   sent_r, inner>>

\* finish: self.handle.take().unwrap().join() (compress.rs:299-302)
JoinCoordinator ==
    /\ call.pc = "join"
    /\ coord.pc = "done"
    /\ FinishReturn(IF coord.result = NoErr THEN "ok" ELSE "err",
                    coord.result, call.wf)
    /\ UNCHANGED <<hvars, pvars, dvars, config, buffer, dictionary, tx_writer, tx_compressor, handle,
                   threadVars, oneshot, offered, calls, inner>>

\* ------------------------------------------------- the synchronous writer
\* SyncZ wraps the format's stream encoder (flate2's GzEncoder for Gzip,
\* deflate.rs:145-154), which writes the header before the first data, one
\* DEFLATE stream whose window is the data written so far, and on finish
\* the final block and the trailer with the CRC of the data written.  An
\* encoder call that meets a sink error returns it before it consumes any
\* of the call's bytes, which the caller still holds.
SyncWritten ==
    Concat([i \in 1..Len(SinkBlocksOf(sink.items)) |->
               SinkBlocksOf(sink.items)[i].data])

SyncWindow ==
    IF Len(SyncWritten) >= DICT_SIZE THEN Suffix(SyncWritten, DICT_SIZE) ELSE None

SyncBlock(data, last) ==
    [kind |-> "block", id |-> 0, data |-> data, dict |-> SyncWindow,
     last |-> last, check |-> create_check(config.format)]

SyncHeader == IF sink.items = <<>> THEN <<HeaderItem(config.format)>> ELSE <<>>

SyncUnchanged ==
    UNCHANGED <<hvars, pvars, dvars, config, buffer, dictionary, tx_writer, tx_compressor, handle,
                writer_q, comp_q, oneshot, coord, workers, dispatched, sent_r>>

\* SyncZ::write: self.inner.as_mut().unwrap().write(buf) (syncz.rs:80-82)
SyncWrite ==
    /\ ~IsPar /\ config.format = "Gzip" /\ MayCall
    /\ calls' = Called
    /\ \E n \in 1..MaxWrite :
        /\ offered + n <= MaxInput
        /\ IF ~inner
           THEN /\ Panic("write")                          \* unwrap of None
                /\ UNCHANGED <<sink, offered>>
           ELSE \/ /\ sink' = [sink EXCEPT !.items = @ \o SyncHeader \o
                                 <<SyncBlock([i \in 1..n |-> offered + i], FALSE)>>]
                   /\ offered' = offered + n
                   /\ call' = IdleCall
                   /\ Return("write", "ok", NoErr, n, FALSE)
                \/ /\ \E k \in SinkErrorKinds :
                        Return("write", "err", IoErr(k, "-"), 0, FALSE)
                   /\ call' = IdleCall
                   /\ UNCHANGED <<sink, offered>>
    /\ UNCHANGED inner
    /\ SyncUnchanged

\* SyncZ<GzEncoder<W>>::finish: self.inner.take().unwrap().finish()?
\* (deflate.rs:156-161)
SyncFinish ==
    /\ ~IsPar /\ config.format = "Gzip" /\ MayCall
    /\ calls' = [Called EXCEPT !.finished = TRUE]
    /\ inner' = FALSE
    /\ IF ~inner
       THEN /\ Panic("finish")                             \* unwrap of None
            /\ UNCHANGED sink
       ELSE \/ /\ sink' = [items |-> sink.items \o SyncHeader
                              \o <<SyncBlock(<<>>, TRUE)>>
                              \o <<FooterItem(config.format,
                                     check_update(config.format,
                                                  create_check(config.format),
                                                  SyncWritten))>>,
                           flushed |-> TRUE]
               /\ call' = IdleCall
               /\ Return("finish", "ok", NoErr, 0, FALSE)
            \/ /\ \E k \in SinkErrorKinds :
                    Return("finish", "err", IoErr(k, "-"), 0, FALSE)
               /\ call' = IdleCall
               /\ UNCHANGED sink
    /\ UNCHANGED offered
    /\ SyncUnchanged

\* ------------------------------------------- the synchronous BGZF writer
\* SyncZ<BgzfSyncWriter<W>> (deflate.rs:641-658): the writer keeps its own
\* accumulator (self.buffer) and writes whole BGZF blocks to the sink.  In a
\* block item of a BGZF sink, last says that the bytes of BGZF_EOF follow
\* the block.
blocksize == config.buffer_size

BgzfBlock(data, eof) ==
    [kind |-> "block", id |-> 0, data |-> data, dict |-> None,
     last |-> eof, check |-> create_check("Bgzf")]

BgzfSyncUnchanged ==
    UNCHANGED <<hvars, pvars, dvars, config, dictionary, tx_writer, tx_compressor, handle,
                writer_q, comp_q, oneshot, coord, workers, dispatched, sent_r>>

\* BgzfSyncWriter::write (bgzf.rs:312-321) under SyncZ::write (syncz.rs:80-82)
BgzfSyncWrite ==
    /\ ~IsPar /\ config.format = "Bgzf" /\ MayCall
    /\ calls' = Called
    /\ \E n \in 1..MaxWrite :
        /\ offered + n <= MaxInput
        /\ IF ~inner
           THEN /\ Panic("write")                          \* unwrap of None
                /\ UNCHANGED <<sink, offered, buffer>>
           ELSE LET b == buffer \o [i \in 1..n |-> offered + i] IN
                /\ offered' = offered + n
                /\ call' = IdleCall
                /\ IF Len(b) >= blocksize
                   THEN /\ buffer' = SubSeq(b, blocksize + 1, Len(b))
                        /\ \/ /\ sink' = [sink EXCEPT !.items = Append(@,
                                          BgzfBlock(SubSeq(b, 1, blocksize), FALSE))]
                              /\ Return("write", "ok", NoErr, n, FALSE)
                           \/ /\ \E k \in SinkErrorKinds :
                                  Return("write", "err", IoErr(k, "-"), 0, FALSE)
                              /\ UNCHANGED sink
                   ELSE /\ buffer' = b
                        /\ Return("write", "ok", NoErr, n, FALSE)
                        /\ UNCHANGED sink
    /\ UNCHANGED inner
    /\ BgzfSyncUnchanged

\* BgzfSyncWriter::flush (bgzf.rs:324-336) on accumulator b and a sink that
\* holds items: the set of its outcomes [buffer, sink, err], one for a run
\* without a sink error and one for an error in each of its writes and in
\* the flush of the sink.
RECURSIVE BgzfFlush(_, _)
BgzfFlush(b, s) ==
    IF b = <<>>
    THEN {[buffer |-> b, sink |-> [s EXCEPT !.flushed = TRUE], err |-> NoErr]}
         \cup {[buffer |-> b, sink |-> s, err |-> IoErr(k, "-")] : k \in SinkErrorKinds}
    ELSE LET n == Min(Len(b), BGZF_BLOCK_SIZE)
             blk == SubSeq(b, 1, n)
             rest == SubSeq(b, n + 1, Len(b))
             written(eof) == [s EXCEPT !.items = Append(@, BgzfBlock(blk, eof))]
         IN {[buffer |-> rest, sink |-> s, err |-> IoErr(k, "-")] : k \in SinkErrorKinds}
            \cup {[buffer |-> rest, sink |-> written(FALSE), err |-> IoErr(k, "-")] :
                      k \in SinkErrorKinds}
            \cup BgzfFlush(rest, written(TRUE))

\* SyncZ::flush: self.inner.as_mut().unwrap().flush() (syncz.rs:84-86)
BgzfSyncFlush ==
    /\ ~IsPar /\ config.format = "Bgzf" /\ MayCall
    /\ calls.flushes < MaxFlush
    /\ calls' = [Called EXCEPT !.flushes = @ + 1]
    /\ IF ~inner
       THEN /\ Panic("flush")                              \* unwrap of None
            /\ UNCHANGED <<sink, buffer>>
       ELSE \E o \in BgzfFlush(buffer, sink) :
            /\ buffer' = o.buffer
            /\ sink' = o.sink
            /\ call' = IdleCall
            /\ Return("flush", IF o.err = NoErr THEN "ok" ELSE "err", o.err, 0, FALSE)
    /\ UNCHANGED <<inner, offered>>
    /\ BgzfSyncUnchanged

\* SyncZ<BgzfSyncWriter<W>>::finish: self.inner.take().unwrap().flush()?
\* (deflate.rs:653-658); the writer taken out of inner is dropped at the end
\* of the statement, and its drop is self.flush().unwrap() (bgzf.rs:339-346).
BgzfSyncFinish ==
    /\ ~IsPar /\ config.format = "Bgzf" /\ MayCall
    /\ calls' = [Called EXCEPT !.finished = TRUE]
    /\ inner' = FALSE
    /\ IF ~inner
       THEN /\ Panic("finish")                             \* unwrap of None
            /\ UNCHANGED <<sink, buffer>>
       ELSE \E o \in BgzfFlush(buffer, sink) :
            \E d \in BgzfFlush(o.buffer, o.sink) :
            /\ buffer' = d.buffer
            /\ sink' = d.sink
            /\ IF d.err # NoErr
               THEN PanicWith("finish", d.err)             \* unwrap in drop
               ELSE /\ call' = IdleCall
                    /\ Return("finish", IF o.err = NoErr THEN "ok" ELSE "err",
                              IoToGzp(o.err), 0, FALSE)
    /\ UNCHANGED offered
    /\ BgzfSyncUnchanged

\* ---------------------------------------------------------- the coordinator
prodVars == <<buffer, dictionary, tx_writer, tx_compressor, handle, call, ret,
              offered, accepted, calls, dispatched, sent_r, inner>>

\* A faulty variant: the writer thread writes no header.
header_missing(f) == <<>>

\* FormatSpec::header and FormatSpec::footer as the items write_all puts in
\* the sink: Bgzf has neither (deflate.rs:632-638), and write_all of no
\* bytes does not reach the sink.
header(f) == IF f = "Gzip" THEN <<HeaderItem(f)>> ELSE <<>>

footer(f, c) == IF f = "Gzip" THEN <<FooterItem(f, c)>> ELSE <<>>

CoordFail(e) == [coord EXCEPT !.pc = "done", !.result = e, !.cur = 0]

\* writer.write_all(&format.header(compression_level))? (compress.rs:218)
CoordHeader ==
    /\ IsPar /\ coord.pc = "header"
    /\ \/ /\ sink' = [sink EXCEPT !.items = @ \o header(config.format)]
          /\ coord' = [coord EXCEPT !.pc = "recv"]
       \/ /\ header(config.format) # <<>>
          /\ \E k \in SinkErrorKinds : coord' = CoordFail(IoErr(k, "-"))
          /\ UNCHANGED sink
    /\ UNCHANGED <<hvars, pvars, dvars, config, prodVars, writer_q, comp_q, oneshot, workers>>

\* A faulty variant: the newest receiver is handed out first.
WriterRecvLast(q) == Len(q)

\* Which receiver rx_writer.recv() hands out: the oldest (a channel is FIFO).
WriterRecv(q) == 1

RemoveAt(q, i) == SubSeq(q, 1, i - 1) \o SubSeq(q, i + 1, Len(q))

\* while let Ok(chunk_chan) = rx_writer.recv() (compress.rs:220)
CoordRecv ==
    /\ IsPar /\ coord.pc = "recv"
    /\ IF writer_q # <<>>
       THEN /\ coord' = [coord EXCEPT !.pc = "await",
                                      !.cur = writer_q[WriterRecv(writer_q)]]
            /\ writer_q' = RemoveAt(writer_q, WriterRecv(writer_q))
       ELSE /\ ~tx_writer
            /\ coord' = [coord EXCEPT !.pc = "footer"]
            /\ UNCHANGED writer_q
    /\ UNCHANGED <<hvars, pvars, dvars, config, prodVars, comp_q, oneshot, workers, sink>>

\* A faulty variant: a missing reply is passed over and the loop goes on.
CoordAwaitSkips ==
    /\ IsPar /\ coord.pc = "await"
    /\ oneshot[coord.cur].st \in {"sent", "closed"}
    /\ IF oneshot[coord.cur].st = "closed"
       THEN /\ coord' = [coord EXCEPT !.pc = "recv", !.cur = 0]
            /\ UNCHANGED <<sink, oneshot>>
       ELSE /\ oneshot' = [oneshot EXCEPT ![coord.cur] =
                              [OpenOneshot EXCEPT !.st = "taken"]]
            /\ \/ /\ sink' = [sink EXCEPT !.items =
                                 Append(@, oneshot[coord.cur].chunk)]
                  /\ coord' = [coord EXCEPT
                                 !.pc = "recv", !.cur = 0,
                                 !.running_check =
                                     check_combine(config.format, @,
                                                   oneshot[coord.cur].check)]
               \/ /\ \E k \in SinkErrorKinds : coord' = CoordFail(IoErr(k, "-"))
                  /\ UNCHANGED sink
    /\ UNCHANGED <<hvars, pvars, dvars, config, prodVars, writer_q, comp_q, workers>>

\* chunk_chan.recv()??; running_check.combine(&check);
\* writer.write_all(&chunk)? (compress.rs:222-224)
CoordAwait ==
    /\ IsPar /\ coord.pc = "await"
    /\ oneshot[coord.cur].st \in {"sent", "closed"}
    /\ IF oneshot[coord.cur].st = "closed"
       THEN /\ coord' = CoordFail(GzpErr("ChannelReceive"))
            /\ UNCHANGED <<sink, oneshot>>
       ELSE /\ oneshot' = [oneshot EXCEPT ![coord.cur] =
                              [OpenOneshot EXCEPT !.st = "taken"]]
            /\ \/ /\ sink' = [sink EXCEPT !.items =
                                 Append(@, oneshot[coord.cur].chunk)]
                  /\ coord' = [coord EXCEPT
                                 !.pc = "recv", !.cur = 0,
                                 !.running_check =
                                     check_combine(config.format, @,
                                                   oneshot[coord.cur].check)]
               \/ /\ \E k \in SinkErrorKinds : coord' = CoordFail(IoErr(k, "-"))
                  /\ UNCHANGED sink
    /\ UNCHANGED <<hvars, pvars, dvars, config, prodVars, writer_q, comp_q, workers>>

\* writer.write_all(&footer)?; writer.flush()? (compress.rs:226-228)
CoordFooter ==
    /\ IsPar /\ coord.pc = "footer"
    /\ \/ /\ sink' = [items |-> sink.items \o footer(config.format, coord.running_check),
                      flushed |-> TRUE]
          /\ coord' = [coord EXCEPT !.pc = "join"]
       \/ /\ footer(config.format, coord.running_check) # <<>>
          /\ \E k \in SinkErrorKinds : coord' = CoordFail(IoErr(k, "-"))
          /\ UNCHANGED sink
       \/ /\ sink' = [sink EXCEPT !.items =
                         @ \o footer(config.format, coord.running_check)]
          /\ \E k \in SinkErrorKinds : coord' = CoordFail(IoErr(k, "-"))
    /\ UNCHANGED <<hvars, pvars, dvars, config, prodVars, writer_q, comp_q, oneshot, workers>>

\* A faulty variant: the coordinator returns without joining the workers.
CoordNoJoin ==
    /\ IsPar /\ coord.pc = "join"
    /\ coord' = [coord EXCEPT !.pc = "done"]
    /\ UNCHANGED <<hvars, pvars, dvars, config, prodVars, writer_q, comp_q, oneshot, workers, sink>>

\* handles.into_iter().try_for_each(join) (compress.rs:231-236): the
\* handles are joined in spawn order up to the first that returned an error.
CoordJoin ==
    /\ IsPar /\ coord.pc = "join"
    /\ \/ /\ \A w \in Workers : workers[w].pc = "exit" /\ workers[w].result = NoErr
          /\ coord' = [coord EXCEPT !.pc = "done"]
       \/ \E w \in Workers :
            /\ workers[w].pc = "exit" /\ workers[w].result # NoErr
            /\ \A v \in 1..(w - 1) :
                  workers[v].pc = "exit" /\ workers[v].result = NoErr
            /\ coord' = CoordFail(workers[w].result)
    /\ UNCHANGED <<hvars, pvars, dvars, config, prodVars, writer_q, comp_q, oneshot, workers, sink>>

\* ---------------------------------------------------------------- workers
WorkerExit(w, e) == [workers EXCEPT ![w] = [pc |-> "exit", m |-> NoMsg, result |-> e]]

\* format.create_compressor(compression_level)? (compress.rs:193): the
\* outcome depends on the format and the level only, so it is the same in
\* every worker.
WorkerCreate(w) ==
    /\ IsPar /\ workers[w].pc = "create"
    /\ workers' = IF config.level_ok
                  THEN [workers EXCEPT ![w].pc = "recv"]
                  ELSE WorkerExit(w, GzpErr(CreateError))
    /\ UNCHANGED <<hvars, pvars, dvars, config, prodVars, writer_q, comp_q, oneshot, coord, sink>>

\* A faulty variant: recv hands a worker the oldest job and leaves it in
\* the channel.
WorkerRecvPeek(w) ==
    /\ IsPar /\ workers[w].pc = "recv"
    /\ IF comp_q # <<>>
       THEN /\ workers' = [workers EXCEPT ![w].pc = "encode", ![w].m = Head(comp_q)]
            /\ UNCHANGED comp_q
       ELSE /\ ~tx_compressor
            /\ workers' = WorkerExit(w, NoErr)
            /\ UNCHANGED comp_q
    /\ UNCHANGED <<hvars, pvars, dvars, config, prodVars, writer_q, oneshot, coord, sink>>

\* while let Ok(m) = rx.recv() (compress.rs:194)
WorkerRecv(w) ==
    /\ IsPar /\ workers[w].pc = "recv"
    /\ IF comp_q # <<>>
       THEN /\ workers' = [workers EXCEPT ![w].pc = "encode", ![w].m = Head(comp_q)]
            /\ comp_q' = Tail(comp_q)
       ELSE /\ ~tx_compressor
            /\ workers' = WorkerExit(w, NoErr)
            /\ UNCHANGED comp_q
    /\ UNCHANGED <<hvars, pvars, dvars, config, prodVars, writer_q, oneshot, coord, sink>>

\* The receiver of a oneshot lives in the writer channel's queue or with the
\* coordinator; the queue is freed once the channel has no sender and no
\* receiver left.
OneshotRxAlive == coord.pc # "done" \/ tx_writer

\* A faulty variant: the check also covers the bytes of the dictionary.
BlockCheckOfDict(f, m) == check_update(f, create_check(f), m.dictionary \o m.buffer)

\* The check of a block: a fresh check updated with the uncompressed bytes
\* (compress.rs:203-204).
BlockCheck(f, m) == check_update(f, create_check(f), m.buffer)

\* A faulty variant: only the codec of the first worker is given the
\* dictionary of a block.
WorkerEncodeByWorker(w) ==
    /\ IsPar /\ workers[w].pc = "encode"
    /\ LET m == workers[w].m IN
       \/ /\ OneshotRxAlive
          /\ oneshot' = [oneshot EXCEPT ![m.id] =
                            [st |-> "sent", check |-> BlockCheck(config.format, m),
                             chunk |-> [Encode(config.format, m) EXCEPT
                                           !.dict = IF w = 1 THEN @ ELSE None]]]
          /\ workers' = [workers EXCEPT ![w].pc = "recv", ![w].m = NoMsg]
       \/ /\ ~OneshotRxAlive
          /\ oneshot' = CloseOneshot(m.id)
          /\ workers' = WorkerExit(w, GzpErr("ChannelSend"))
       \/ /\ \E e \in CodecErrors : workers' = WorkerExit(w, GzpErr(e))
          /\ oneshot' = CloseOneshot(m.id)
    /\ UNCHANGED <<hvars, pvars, dvars, config, prodVars, writer_q, comp_q, coord, sink>>

\* format.encode(...)?; check.update(chunk); m.oneshot.send(Ok((check,
\* buffer))) (compress.rs:195-208).  A failed encode leaves the thread by
\* `?`: the message is dropped and nothing is sent on its oneshot.
WorkerEncode(w) ==
    /\ IsPar /\ workers[w].pc = "encode"
    /\ LET m == workers[w].m IN
       \/ /\ OneshotRxAlive
          /\ oneshot' = [oneshot EXCEPT ![m.id] =
                            [st |-> "sent", check |-> BlockCheck(config.format, m),
                             chunk |-> Encode(config.format, m)]]
          /\ workers' = [workers EXCEPT ![w].pc = "recv", ![w].m = NoMsg]
       \/ /\ ~OneshotRxAlive
          /\ oneshot' = CloseOneshot(m.id)
          /\ workers' = WorkerExit(w, GzpErr("ChannelSend"))
       \/ /\ \E e \in CodecErrors : workers' = WorkerExit(w, GzpErr(e))
          /\ oneshot' = CloseOneshot(m.id)
    /\ UNCHANGED <<hvars, pvars, dvars, config, prodVars, writer_q, comp_q, coord, sink>>

\* ================================================ the parallel decompressor
\* Threads: the consumer (the caller of read), the reader thread
\* (ParDecompress::run, which owns the source) and num_threads
\* decompression workers.  The source is a sequence of blocks, each a
\* header and a payload ending in the block's check value and length; the
\* k-th byte of the decompressed stream has value k.

\* Number of blocks in the source at most.
MaxBlocks == 4
\* Decompressed length of a block that is not empty.
BlockLen == 2
\* Longest buffer handed to one read call.
MaxAsk == 2
\* Number of read calls made after the stream has ended at most.
MaxLateReads == 1

DThreadCounts == {1, 2}

\* What a block of the source is: well formed, well formed with no data
\* (its length field is 0), or one a worker fails on.
BlockKinds == {"good", "empty", "bad"}

\* How a worker fails on a bad block: decode_block rejects the payload, or
\* the check value of the block does not match its data.
DecodeErrors == {"DecompressError", "InvalidCheck"}

\* What the source holds after its blocks, if anything: the header of a
\* block with the extra-field flag clear, 1..HEADER_SIZE-1 bytes of a
\* header, an I/O error of the source in place of a header, or a block whose
\* header declares a size larger than the bytes that remain in the source.
EndKinds == {"noextra", "partial", "ioerr", "truncated"}

\* The number of blocks of kind k in the source s.
CountKind(s, k) == Cardinality({i \in DOMAIN s : s[i] = k})

\* The sources that are read: up to MaxBlocks blocks, with or without an
\* end, of which at most one is empty and at most two are bad (one for
\* each worker).
Sources ==
    {s \in UNION {[1..n -> BlockKinds] : n \in 0..MaxBlocks}
           \cup {Append(t, e) :
                    t \in UNION {[1..n -> BlockKinds] : n \in 0..(MaxBlocks - 1)},
                    e \in EndKinds} :
        /\ CountKind(s, "empty") <= 1
        /\ CountKind(s, "bad") <= 2}

\* The format F of ParDecompress<F>; the steps of the reader thread are the
\* same for Mgzip and Bgzf.
d_format == "Mgzip"

\* The subfield identifier of a block format (deflate.rs:414, 563).
SubfieldId(f) == IF f = "Mgzip" THEN <<73, 71>> ELSE <<66, 67>>

\* The header bytes check_header looks at and the magic bytes: a header is
\* [id1, id2, flg, si1, si2], the bytes 0, 1, 3, 12 and 13.
GoodHeader(f) ==
    [id1 |-> 31, id2 |-> 139, flg |-> 4, si1 |-> SubfieldId(f)[1],
     si2 |-> SubfieldId(f)[2]]

\* The header of the block of kind k in a source of format f.
HeaderOf(f, k) ==
    IF k = "noextra" THEN [GoodHeader(f) EXCEPT !.flg = 0] ELSE GoodHeader(f)

\* A faulty variant: every header is accepted.
check_header_any(f, bytes) == NoErr

\* BlockFormatSpec::check_header of Mgzip and Bgzf (deflate.rs:410-420,
\* 559-569): bytes[3] & 4 != 4, then the subfield identifier.
check_header(f, bytes) ==
    IF (bytes.flg \div 4) % 2 # 1
    THEN GzpErr("InvalidHeader")
    ELSE IF bytes.si1 # SubfieldId(f)[1] \/ bytes.si2 # SubfieldId(f)[2]
    THEN GzpErr("InvalidHeader")
    ELSE NoErr

BlockFormats == {"Mgzip", "Bgzf"}

\* The headers check_header is called on: right and wrong magic bytes, the
\* flag byte with and without FEXTRA (4) and with another flag (8), and the
\* subfield identifiers of both formats and a foreign one.
Headers ==
    [id1 : {31, 0}, id2 : {139, 0}, flg : {0, 4, 8, 12},
     si1 : {66, 73, 0}, si2 : {67, 71, 0}]

Unchecked == [variant |-> "unchecked", kind |-> "-", inner |-> "-"]

\* The state before check_header is called on h for format f.
header_call(f, h) ==
    /\ h_format = f
    /\ h_bytes = h
    /\ h_result = Unchecked

\* format.check_header(&buf) (decompress.rs:187)
CheckHeader ==
    /\ h_result = Unchecked
    /\ h_result' = check_header(h_format, h_bytes)
    /\ UNCHANGED <<cvars, dvars, pvars, h_format, h_bytes>>

\* The bytes block i decompresses to.
BlockData(i) ==
    IF source[i] = "empty" THEN <<>>
    ELSE [k \in 1..BlockLen |-> (i - 1) * BlockLen + k]

DWorkers == 1..d_config.num_threads

\* bounded(self.num_threads * 2) (decompress.rs:64, 136)
DChannelCap == d_config.num_threads * 2

DIdleCall == [pc |-> "idle", asked |-> 0, copied |-> <<>>, cur |-> 0]

DNoRet == [res |-> "none", n |-> 0, err |-> NoErr, priorErr |-> FALSE]

\* ParDecompressBuilder::from_reader (decompress.rs:63-78) with n threads
\* on source src.  A worker does nothing another thread can see before its
\* first recv (create_decompressor cannot fail).
from_reader(n, src) ==
    /\ d_config = [num_threads |-> n]
    /\ source = src
    /\ tx_reader_q = <<>>
    /\ tx_q = <<>>
    /\ d_oneshot = <<>>
    /\ d_coord = [pc |-> "read", pos |-> 0, cur |-> 0, result |-> NoErr]
    /\ d_workers = [w \in 1..n |-> [pc |-> "recv", m |-> 0, result |-> NoErr]]
    /\ rx_reader = TRUE
    /\ d_handle = TRUE
    /\ d_buffer = <<>>
    /\ d_call = DIdleCall
    /\ d_ret = DNoRet
    /\ delivered = <<>>
    /\ reads = 0

\* The sender tx of the work channel lives in run until drop(tx)
\* (decompress.rs:199) or until run returns.
TxAlive == d_coord.pc \in {"read", "send_r", "send_m"}

\* The sender tx_reader of the result channel lives in the closure of the
\* reader thread (decompress.rs:68-70).
TxReaderAlive == d_coord.pc # "done"

\* The work channel is freed, and the messages in it dropped, once run has
\* returned (tx and rx dropped) and every worker has dropped its rx.
TxFreed == d_coord.pc = "done" /\ \A w \in DWorkers : d_workers[w].pc = "exit"

\* The receiver of a oneshot lives in the result channel's queue until the
\* consumer takes it; the queue is freed once the channel has no sender and
\* no receiver left.
DOneshotRxAlive(id) ==
    \/ \A i \in 1..Len(tx_reader_q) : tx_reader_q[i] # id
    \/ rx_reader
    \/ TxReaderAlive

\* The sender of a oneshot is dropped without a reply.
DOneshotClosed(id) ==
    \/ d_oneshot[id].st = "closed"
    \/ /\ d_oneshot[id].st = "open"
       /\ TxFreed
       /\ \E i \in 1..Len(tx_q) : tx_q[i] = id

DCloseOneshot(id) == [d_oneshot EXCEPT ![id] = [@ EXCEPT !.st = "closed"]]

consumerVars == <<rx_reader, d_handle, d_buffer, d_call, d_ret, delivered, reads>>

\* ------------------------------------------------------- the reader thread
ReaderFail(e) == [d_coord EXCEPT !.pc = "done", !.result = e, !.cur = 0]

\* One turn of the loop of run up to its sends (decompress.rs:183-192,
\* 195-199): read a header and the rest of the block, or meet the end of the
\* source and drop tx.
ReaderRead ==
    /\ d_coord.pc = "read"
    /\ IF d_coord.pos < Len(source) /\ source[d_coord.pos + 1] \notin {"partial", "ioerr"}
       THEN LET e == check_header(d_format, HeaderOf(d_format, source[d_coord.pos + 1]))
            IN IF e # NoErr
               THEN /\ d_coord' = ReaderFail(e)             \* check_header(&buf)?
                    /\ UNCHANGED d_oneshot
               ELSE IF source[d_coord.pos + 1] = "truncated"
               THEN \* reader.read_exact(&mut remainder)? (decompress.rs:190)
                    /\ d_coord' = ReaderFail(IoErr("UnexpectedEof", "-"))
                    /\ UNCHANGED d_oneshot
               ELSE /\ d_oneshot' = Append(d_oneshot, [st |-> "open", data |-> <<>>])
                    /\ d_coord' = [d_coord EXCEPT !.pc = "send_r", !.pos = @ + 1,
                                                  !.cur = Len(d_oneshot) + 1]
       ELSE /\ d_coord' = [d_coord EXCEPT !.pc = "join"]  \* read_exact is not Ok
            /\ UNCHANGED d_oneshot
    /\ UNCHANGED <<hvars, pvars, cvars, d_config, source, tx_reader_q, tx_q, d_workers,
                   consumerVars>>

\* tx_reader.send(r).map_err(|_e| GzpError::ChannelSend)? (decompress.rs:193)
ReaderSendR ==
    /\ d_coord.pc = "send_r"
    /\ IF ~rx_reader
       THEN /\ d_coord' = ReaderFail(GzpErr("ChannelSend"))
            /\ d_oneshot' = DCloseOneshot(d_coord.cur)
            /\ UNCHANGED tx_reader_q
       ELSE /\ Len(tx_reader_q) < DChannelCap
            /\ tx_reader_q' = Append(tx_reader_q, d_coord.cur)
            /\ d_coord' = [d_coord EXCEPT !.pc = "send_m"]
            /\ UNCHANGED d_oneshot
    /\ UNCHANGED <<hvars, pvars, cvars, d_config, source, tx_q, d_workers, consumerVars>>

\* tx.send(m) (decompress.rs:194): run holds a receiver of the work channel
\* itself (rx, decompress.rs:136), so the send cannot fail; it blocks while
\* the queue is full.
ReaderSendM ==
    /\ d_coord.pc = "send_m"
    /\ Len(tx_q) < DChannelCap
    /\ tx_q' = Append(tx_q, d_coord.cur)
    /\ d_coord' = [d_coord EXCEPT !.pc = "read", !.cur = 0]
    /\ UNCHANGED <<hvars, pvars, cvars, d_config, source, tx_reader_q, d_oneshot, d_workers,
                   consumerVars>>

\* handles.into_iter().try_for_each(join) (decompress.rs:202-207)
ReaderJoin ==
    /\ d_coord.pc = "join"
    /\ \/ /\ \A w \in DWorkers :
                d_workers[w].pc = "exit" /\ d_workers[w].result = NoErr
          /\ d_coord' = [d_coord EXCEPT !.pc = "done"]
       \/ \E w \in DWorkers :
            /\ d_workers[w].pc = "exit" /\ d_workers[w].result # NoErr
            /\ \A v \in 1..(w - 1) :
                  d_workers[v].pc = "exit" /\ d_workers[v].result = NoErr
            /\ d_coord' = ReaderFail(d_workers[w].result)
    /\ UNCHANGED <<hvars, pvars, cvars, d_config, source, tx_reader_q, tx_q, d_oneshot,
                   d_workers, consumerVars>>

\* ----------------------------------------------------- decompression workers
DWorkerExit(w, e) == [d_workers EXCEPT ![w] = [pc |-> "exit", m |-> 0, result |-> e]]

\* while let Ok(m) = rx.recv() (decompress.rs:150)
DWorkerRecv(w) ==
    /\ d_workers[w].pc = "recv"
    /\ IF tx_q # <<>>
       THEN /\ d_workers' = [d_workers EXCEPT ![w].pc = "decode", ![w].m = Head(tx_q)]
            /\ tx_q' = Tail(tx_q)
       ELSE /\ ~TxAlive
            /\ d_workers' = DWorkerExit(w, NoErr)
            /\ UNCHANGED tx_q
    /\ UNCHANGED <<hvars, pvars, cvars, d_config, source, tx_reader_q, d_oneshot, d_coord,
                   consumerVars>>

\* What a payload holds: [sum, amount] are the footer values of the block
\* (get_footer_values, lib.rs:433-440) and deflate is what decode_block
\* makes of the bytes before the footer: the block's data, or Corrupt when
\* it rejects them.
Corrupt == <<0>>

\* The payloads the block i of the source may have, by its kind.  A block
\* with no data has amount 0, and a well-formed one the CRC of no bytes;
\* a worker fails on a payload decode_block rejects, on one whose stored
\* CRC is not the CRC of its data, and on one with no data and a stored CRC
\* other than 0.
Payloads(i) ==
    LET data == [k \in 1..BlockLen |-> (i - 1) * BlockLen + k]
        crc == CrcOf(0, data)
    IN IF source[i] = "good"
       THEN {[sum |-> crc, amount |-> BlockLen, deflate |-> data]}
       ELSE IF source[i] = "empty"
       THEN {[sum |-> 0, amount |-> 0, deflate |-> d] : d \in {<<>>, Corrupt}}
       ELSE {[sum |-> crc, amount |-> BlockLen, deflate |-> Corrupt],
             [sum |-> (crc + 1) % 251, amount |-> BlockLen, deflate |-> data],
             [sum |-> 1, amount |-> 0, deflate |-> <<>>]}

\* A faulty variant: a block with no data is decoded like any other.
worker_body_decode_all(m) ==
    IF m.deflate = Corrupt
    THEN [err |-> GzpErr("DecompressError"), result |-> <<>>]
    ELSE IF CrcOf(0, m.deflate) # m.sum
    THEN [err |-> GzpErr("InvalidCheck"), result |-> <<>>]
    ELSE [err |-> NoErr, result |-> m.deflate]

\* The body of the worker loop up to its send (decompress.rs:151-170) on
\* the payload m: the block is decoded unless its amount is 0, and the sum
\* of a fresh check updated with the result is compared with the stored
\* sum.  The value is [err, result].
worker_body(m) ==
    IF m.amount # 0 /\ m.deflate = Corrupt
    THEN [err |-> GzpErr("DecompressError"), result |-> <<>>]
    ELSE LET result == IF m.amount # 0 THEN m.deflate ELSE <<>>
         IN IF CrcOf(0, result) # m.sum
            THEN [err |-> GzpErr("InvalidCheck"), result |-> <<>>]
            ELSE [err |-> NoErr, result |-> result]

\* The body of the worker loop (decompress.rs:151-173): decode_block fails
\* with `?`, a check mismatch returns InvalidCheck; both leave the thread
\* and drop the message with its oneshot sender unused.
DWorkerDecode(w) ==
    /\ d_workers[w].pc = "decode"
    /\ LET id == d_workers[w].m IN
       \E m \in Payloads(id) :
       IF worker_body(m).err # NoErr
       THEN /\ d_workers' = DWorkerExit(w, worker_body(m).err)
            /\ d_oneshot' = DCloseOneshot(id)
       ELSE IF ~DOneshotRxAlive(id)
       THEN /\ d_workers' = DWorkerExit(w, GzpErr("ChannelSend"))
            /\ d_oneshot' = DCloseOneshot(id)
       ELSE /\ d_oneshot' = [d_oneshot EXCEPT ![id] =
                                [st |-> "sent", data |-> worker_body(m).result]]
            /\ d_workers' = [d_workers EXCEPT ![w].pc = "recv", ![w].m = 0]
    /\ UNCHANGED <<hvars, pvars, cvars, d_config, source, tx_reader_q, tx_q, d_coord,
                   consumerVars>>

\* ------------------------------------------------------------- the consumer
readerVars == <<d_config, source, tx_reader_q, tx_q, d_coord, d_workers>>

\* The stream has ended for the caller: a read has returned Ok(0) or Err.
Ended == d_ret.res = "err" \/ d_ret.priorErr \/ (d_ret.res = "ok" /\ d_ret.n = 0)

\* read returns Ok(bytes_copied) (decompress.rs:323).
ReadOk(copied) ==
    /\ d_ret' = [res |-> "ok", n |-> Len(copied), err |-> NoErr,
                 priorErr |-> (d_ret.priorErr \/ d_ret.res = "err")]
    /\ delivered' = delivered \o copied
    /\ d_call' = DIdleCall

\* read returns Err(err) (decompress.rs:294, 316): the bytes copied so far
\* in this call are not reported.
ReadErr(e) ==
    /\ d_ret' = [res |-> "err", n |-> 0, err |-> e,
                 priorErr |-> (d_ret.priorErr \/ d_ret.res = "err")]
    /\ d_call' = DIdleCall
    /\ UNCHANGED delivered

\* GzpError -> io::Error as read converts the reader thread's error
\* (decompress.rs:285-292, 307-314).
ReadErrorToIo(e) ==
    IF e.variant = "Io" THEN e ELSE IoErr("Other", e.variant)

\* The loop of read from its head (decompress.rs:256-270, 319-323) with
\* copied the bytes put in buf so far and b the current buffer, up to the
\* recv it blocks in or to its return: copy what b holds, then stop when buf
\* is full, pull from the channel while rx_reader is Some, or else return.
ReadLoop(asked, copied, b) ==
    LET k == Min(asked - Len(copied), Len(b))
        now == copied \o SubSeq(b, 1, k)
    IN /\ d_buffer' = SubSeq(b, k + 1, Len(b))
       /\ IF Len(now) < asked /\ rx_reader
          THEN /\ d_call' = [pc |-> "recv", asked |-> asked, copied |-> now,
                             cur |-> 0]
               /\ UNCHANGED <<d_ret, delivered>>
          ELSE ReadOk(now)

\* ParDecompress::read is called with a buffer of asked >= 1 bytes
\* (decompress.rs:253-255).
ReadStart ==
    /\ d_call.pc = "idle"
    /\ Ended => reads < MaxLateReads
    /\ reads' = IF Ended THEN reads + 1 ELSE reads
    /\ \E asked \in 1..MaxAsk : ReadLoop(asked, <<>>, d_buffer)
    /\ UNCHANGED <<hvars, pvars, cvars, readerVars, d_oneshot, rx_reader, d_handle>>

\* self.rx_reader.as_mut().unwrap().recv() (decompress.rs:272-273, 298)
ReadRecv ==
    /\ d_call.pc = "recv"
    /\ IF tx_reader_q # <<>>
       THEN /\ d_call' = [d_call EXCEPT !.pc = "await", !.cur = Head(tx_reader_q)]
            /\ tx_reader_q' = Tail(tx_reader_q)
       ELSE /\ ~TxReaderAlive
            /\ d_call' = [d_call EXCEPT !.pc = "join"]
            /\ UNCHANGED tx_reader_q
    /\ UNCHANGED <<hvars, pvars, cvars, d_config, source, tx_q, d_coord, d_workers, d_oneshot,
                   rx_reader, d_handle, d_buffer, d_ret, delivered, reads>>

\* self.buffer = match new_buffer_chan.recv() (decompress.rs:274-276)
ReadAwait ==
    /\ d_call.pc = "await"
    /\ IF d_oneshot[d_call.cur].st = "sent"
       THEN /\ d_oneshot' = [d_oneshot EXCEPT ![d_call.cur] =
                                [st |-> "taken", data |-> <<>>]]
            /\ ReadLoop(d_call.asked, d_call.copied, d_oneshot[d_call.cur].data)
       ELSE /\ DOneshotClosed(d_call.cur)
            /\ d_call' = [d_call EXCEPT !.pc = "join"]
            /\ UNCHANGED <<d_buffer, d_oneshot, d_ret, delivered>>
    /\ UNCHANGED <<hvars, pvars, cvars, readerVars, rx_reader, d_handle, reads>>

\* self.handle.take().unwrap().join() and what follows it
\* (decompress.rs:280-294, 302-316).
ReadJoin ==
    /\ d_call.pc = "join"
    /\ IF ~d_handle
       THEN /\ d_call' = [DIdleCall EXCEPT !.pc = "panicked"]   \* unwrap of None
            /\ UNCHANGED <<rx_reader, d_handle, d_ret, delivered>>
       ELSE /\ d_coord.pc = "done"
            /\ d_handle' = FALSE
            /\ rx_reader' = FALSE
            /\ IF d_coord.result = NoErr
               THEN ReadOk(d_call.copied)
               ELSE ReadErr(ReadErrorToIo(d_coord.result))
    /\ UNCHANGED <<hvars, pvars, cvars, readerVars, d_oneshot, d_buffer, reads>>

\* ------------------------------------------------------------ specification
Next ==
    \/ StartWrite
    \/ StartFlush
    \/ StartFinish
    \/ StartDrop
    \/ SendR
    \/ SendM
    \/ JoinCoordinator
    \/ SyncWrite
    \/ SyncFinish
    \/ BgzfSyncWrite
    \/ BgzfSyncFlush
    \/ BgzfSyncFinish
    \/ CoordHeader
    \/ CoordRecv
    \/ CoordAwait
    \/ CoordFooter
    \/ CoordJoin
    \/ \E w \in Workers : WorkerCreate(w)
    \/ \E w \in Workers : WorkerRecv(w)
    \/ \E w \in Workers : WorkerEncode(w)

\* The decompressor is not built (no source, no read is made).
Init ==
    /\ \E c \in Configs : from_writer(c)
    /\ from_reader(1, <<>>)
    /\ header_call(d_format, GoodHeader(d_format))
    /\ pure_call(NoCall)

Spec == Init /\ [][Next]_vars

\* The parallel writer on its own, used as the tests of the crate use it:
\* write calls followed by finish, no flush (deflate.rs:1052-1055).
NextN ==
    \/ StartWrite
    \/ StartFinish
    \/ SendR
    \/ SendM
    \/ JoinCoordinator
    \/ CoordHeader
    \/ CoordRecv
    \/ CoordAwait
    \/ CoordFooter
    \/ CoordJoin
    \/ \E w \in Workers : WorkerCreate(w)
    \/ \E w \in Workers : WorkerRecv(w)
    \/ \E w \in Workers : WorkerEncode(w)

InitN ==
    /\ \E c \in ParConfigs : from_writer(c)
    /\ from_reader(1, <<>>)
    /\ header_call(d_format, GoodHeader(d_format))
    /\ pure_call(NoCall)

SpecN == InitN /\ [][NextN]_vars

NextD ==
    \/ ReadStart
    \/ ReadRecv
    \/ ReadAwait
    \/ ReadJoin
    \/ ReaderRead
    \/ ReaderSendR
    \/ ReaderSendM
    \/ ReaderJoin
    \/ \E w \in DWorkers : DWorkerRecv(w)
    \/ \E w \in DWorkers : DWorkerDecode(w)

\* The compressor is not used (a synchronous writer no call is made on).
InitD ==
    /\ from_writer([backend |-> "SyncZ", format |-> "Gzip", num_threads |-> 0,
                    buffer_size |-> DICT_SIZE, level_ok |-> TRUE])
    /\ \E n \in DThreadCounts : \E src \in Sources : from_reader(n, src)
    /\ header_call(d_format, GoodHeader(d_format))
    /\ pure_call(NoCall)

SpecD == InitD /\ [][NextD]_vars

\* check_header alone, on every header of Headers and for both formats.
NextH == CheckHeader

InitH ==
    /\ from_writer([backend |-> "SyncZ", format |-> "Gzip", num_threads |-> 0,
                    buffer_size |-> DICT_SIZE, level_ok |-> TRUE])
    /\ from_reader(1, <<>>)
    /\ \E f \in BlockFormats : \E h \in Headers : header_call(f, h)
    /\ pure_call(NoCall)

\* -------------------------------------------------------- bgzf::compress
\* No writer and no reader is running while a function is called on its own.
NoPipeline ==
    /\ from_writer([backend |-> "SyncZ", format |-> "Gzip", num_threads |-> 0,
                    buffer_size |-> DICT_SIZE, level_ok |-> TRUE])
    /\ from_reader(1, <<>>)
    /\ header_call(d_format, GoodHeader(d_format))

MAX_BGZF_BLOCK_SIZE == 64 * 1024

BGZF_HEADER_SIZE == 18

BGZF_FOOTER_SIZE == 8

\* The values of a u16.
U16 == 2 ^ 16

\* The lengths of the DEFLATE payload compress is tried on: those within
\* PayloadWindow of MAX_BGZF_BLOCK_SIZE, and small ones.
PayloadWindow == 60

PayloadLens ==
    (MAX_BGZF_BLOCK_SIZE - PayloadWindow)..(MAX_BGZF_BLOCK_SIZE + PayloadWindow)
    \cup 0..3

\* header_inner (bgzf.rs:266-295), the field BSIZE it writes:
\* write_u16(compressed_size + 26 - 1) with compressed_size: u16.  The sum
\* compressed_size + 26 is taken first and overflows a u16 above 65535: it
\* wraps, as does the subtraction, in a build without overflow checks and
\* panics (PanicValue) in a build with them.
PanicValue == 0 - 1

bsize(compressed_size) ==
    IF compressed_size + 26 < U16
    THEN {compressed_size + 26 - 1}
    ELSE {(((compressed_size + 26) % U16) + U16 - 1) % U16, PanicValue}

\* bgzf::compress (bgzf.rs:234-262) on an input whose DEFLATE payload has
\* len bytes: the set of its outcomes, an error or the block's BSIZE field
\* and total length.
compress(len) ==
    IF ~(len < MAX_BGZF_BLOCK_SIZE)
    THEN {[res |-> "err", err |-> GzpErr("BlockSizeExceeded")]}
    ELSE {IF b = PanicValue
          THEN [res |-> "panic"]
          ELSE [res |-> "ok", bsize |-> b,
                size |-> BGZF_HEADER_SIZE + len + BGZF_FOOTER_SIZE] :
             b \in bsize(len % U16)}

Compress ==
    /\ p_call.fn = "compress" /\ p_result = Uncalled
    /\ p_result' \in compress(p_call.len)
    /\ UNCHANGED <<cvars, dvars, hvars, p_call>>

NextB == Compress

InitB ==
    /\ NoPipeline
    /\ \E n \in PayloadLens : pure_call([fn |-> "compress", len |-> n])

SpecB == InitB /\ [][NextB]_vars

SpecH == InitH /\ [][NextH]_vars

\* ------------------------------------------------------------ the builders
\* A builder is the record p_call with fn = "builder": its kind
\* (ParCompressBuilder, ParDecompressBuilder or ZBuilder) and its fields
\* buffer_size and num_threads.  p_result is the result of the last method
\* called on it.  Every method takes the builder by value, so after an Err
\* and after the object is built no further method is called.
BuilderKinds == {"ParCompress", "ParDecompress", "ZBuilder"}

\* Largest buffer size and worker count a setter is called with.
MaxBufferSize == DICT_SIZE + 2
MaxThreads == 3

\* new(): buffer_size is F::DEFAULT_BUFSIZE (BUFSIZE or BGZF_BLOCK_SIZE,
\* neither below DICT_SIZE) and num_threads is num_cpus::get(), at least 1.
Builder(k, b, n) ==
    [fn |-> "builder", kind |-> k, buffer_size |-> b, num_threads |-> n]

NewBuilders ==
    {Builder(k, b, n) : k \in BuilderKinds, b \in BufferSizes,
                        n \in ThreadCounts}

BuilderLive == p_call.fn = "builder" /\ p_result.res \in {"uncalled", "ok"}

SetOk(m, arg) == [res |-> "ok", call |-> m, arg |-> arg]
SetErr(m, arg, e) ==
    [res |-> "err", call |-> m, arg |-> arg, err |-> e]

\* ParCompressBuilder::buffer_size and ParDecompressBuilder::buffer_size:
\* the error, or NoErr.
set_buffer_size(b) ==
    IF b < DICT_SIZE THEN GzpErr("BufferSize") ELSE NoErr

\* ParCompressBuilder::num_threads and ParDecompressBuilder::num_threads.
set_num_threads(n) ==
    IF n = 0 THEN GzpErr("NumThreads") ELSE NoErr

\* A call of buffer_size(b): the ZBuilder's sets the field and returns Self
\* (lib.rs:228-231), the other two validate.
SetBufferSize ==
    /\ BuilderLive
    /\ \E b \in 0..MaxBufferSize :
          IF p_call.kind # "ZBuilder" /\ set_buffer_size(b) # NoErr
          THEN /\ p_result' = SetErr("buffer_size", b, set_buffer_size(b))
               /\ p_call' = p_call
          ELSE /\ p_result' = SetOk("buffer_size", b)
               /\ p_call' = [p_call EXCEPT !.buffer_size = b]
    /\ UNCHANGED <<cvars, dvars, hvars>>

\* A call of num_threads(n): the ZBuilder's sets the field (lib.rs:214-217).
SetNumThreads ==
    /\ BuilderLive
    /\ \E n \in 0..MaxThreads :
          IF p_call.kind # "ZBuilder" /\ set_num_threads(n) # NoErr
          THEN /\ p_result' = SetErr("num_threads", n, set_num_threads(n))
               /\ p_call' = p_call
          ELSE /\ p_result' = SetOk("num_threads", n)
               /\ p_call' = [p_call EXCEPT !.num_threads = n]
    /\ UNCHANGED <<cvars, dvars, hvars>>

\* ParDecompressBuilder::maybe_num_threads(n): sets the field, 0 allowed.
MaybeNumThreads ==
    /\ BuilderLive
    /\ p_call.kind = "ParDecompress"
    /\ \E n \in 0..MaxThreads :
          /\ p_result' = SetOk("maybe_num_threads", n)
          /\ p_call' = [p_call EXCEPT !.num_threads = n]
    /\ UNCHANGED <<cvars, dvars, hvars>>

Built(m, backend, b, n) ==
    [res |-> "built", call |-> m, backend |-> backend,
     buffer_size |-> b, num_threads |-> n]

\* from_writer / from_reader.  ParCompressBuilder::from_writer and
\* ParDecompressBuilder::from_reader build from the fields as they are.
\* ZBuilder::from_writer, when num_threads > 1, passes its fields through
\* ParCompressBuilder's setters and unwraps their results.
Build ==
    /\ BuilderLive
    /\ p_call' = p_call
    /\ p_result' =
          CASE p_call.kind = "ParCompress" ->
                  Built("from_writer", "ParCompress",
                        p_call.buffer_size, p_call.num_threads)
            [] p_call.kind = "ParDecompress" ->
                  Built("from_reader", "ParDecompress",
                        p_call.buffer_size, p_call.num_threads)
            [] p_call.kind = "ZBuilder" ->
                  LET c == ZBuilder_from_writer("Gzip", p_call.num_threads,
                                                p_call.buffer_size, TRUE)
                  IN  IF c.backend = "ParCompress"
                         /\ set_num_threads(c.num_threads) # NoErr
                      THEN [res |-> "panic", call |-> "from_writer",
                            err |-> set_num_threads(c.num_threads)]
                      ELSE IF c.backend = "ParCompress"
                              /\ set_buffer_size(c.buffer_size) # NoErr
                      THEN [res |-> "panic", call |-> "from_writer",
                            err |-> set_buffer_size(c.buffer_size)]
                      ELSE Built("from_writer", c.backend,
                                 c.buffer_size, c.num_threads)
    /\ UNCHANGED <<cvars, dvars, hvars>>

\* ParDecompressBuilder::maybe_par_from_reader: a MultiGzDecoder when
\* num_threads is 0, from_reader otherwise.
MaybeParFromReader ==
    /\ BuilderLive
    /\ p_call.kind = "ParDecompress"
    /\ p_call' = p_call
    /\ p_result' =
          IF p_call.num_threads = 0
          THEN Built("maybe_par_from_reader", "MultiGzDecoder",
                     p_call.buffer_size, p_call.num_threads)
          ELSE Built("maybe_par_from_reader", "ParDecompress",
                     p_call.buffer_size, p_call.num_threads)
    /\ UNCHANGED <<cvars, dvars, hvars>>

NextV ==
    \/ SetBufferSize
    \/ SetNumThreads
    \/ MaybeNumThreads
    \/ Build
    \/ MaybeParFromReader

InitV ==
    /\ NoPipeline
    /\ \E c \in NewBuilders : pure_call(c)

SpecV == InitV /\ [][NextV]_vars

\* ------------------------------------------------ the checks of check.rs
\* A u32 is kept as its two 16-bit halves [hi, lo], so that sums up to 2^32
\* stay within the integers of the model checker.
U32Of(n) == [hi |-> n \div U16, lo |-> n % U16]

\* a + b modulo 2^32, and whether the sum of a and b overflows a u32.
U32Add(a, b) ==
    [hi |-> (a.hi + b.hi + (a.lo + b.lo) \div U16) % U16,
     lo |-> (a.lo + b.lo) % U16]

U32Overflows(a, b) == a.hi + b.hi + (a.lo + b.lo) \div U16 >= U16

\* x % m for a u32 x and m below 2^16.
U32Mod(x, m) == ((x.hi % m) * (U16 % m) + x.lo) % m

\* zlib's adler32(adler, buf, len): the low half is 1 plus the sum of the
\* bytes and the high half the sum of the low halves, both modulo BASE.
BASE == 65521

\* The bytes buf[i..j] are taken in order; the range is halved to keep
\* the evaluation shallow, and the test of left (a half is below BASE)
\* has the left part evaluated before the right one starts.
RECURSIVE adler32_range(_, _, _, _)
adler32_range(adler, buf, i, j) ==
    IF i > j THEN adler
    ELSE IF i = j
    THEN LET lo == (adler.lo + buf[i]) % BASE
         IN  [hi |-> (adler.hi + lo) % BASE, lo |-> lo]
    ELSE LET m == (i + j) \div 2
             left == adler32_range(adler, buf, i, m)
         IN  IF left.lo < BASE THEN adler32_range(left, buf, m + 1, j)
             ELSE left

adler32(adler, buf) == adler32_range(adler, buf, 1, Len(buf))

\* (a * b) % m for a and b below 2^16, the product taken in two steps.
MulMod(a, b, m) == (((a * (b \div 256)) % m) * 256 + a * (b % 256)) % m

\* zlib's adler32_combine(adler1, adler2, len2).
adler32_combine(adler1, adler2, len2) ==
    LET rem == U32Mod(len2, BASE)
        sum1 == adler1.lo + adler2.lo + BASE - 1
        sum2 == MulMod(rem, adler1.lo, BASE) + adler1.hi + adler2.hi
                + BASE - rem
        Fold(s) == IF s >= BASE THEN s - BASE ELSE s
    IN  [hi |-> Fold(IF sum2 >= 2 * BASE THEN sum2 - 2 * BASE ELSE sum2),
         lo |-> Fold(Fold(sum1))]

\* Exclusive or of two numbers of n bits.
RECURSIVE XorN(_, _, _)
XorN(a, b, n) ==
    IF n = 0 THEN 0
    ELSE ((a + b) % 2) + 2 * XorN(a \div 2, b \div 2, n - 1)

\* Exclusive or of two u32.
Xor(a, b) == [hi |-> XorN(a.hi, b.hi, 16), lo |-> XorN(a.lo, b.lo, 16)]

\* c >> 1 of a u32.
Shr1(c) ==
    [hi |-> c.hi \div 2, lo |-> (c.lo \div 2) + (c.hi % 2) * (U16 \div 2)]

\* !c of a u32.
Not(c) == [hi |-> U16 - 1 - c.hi, lo |-> U16 - 1 - c.lo]

\* 0xEDB88320, the reflected polynomial of gzip's CRC-32.
POLY == [hi |-> 60856, lo |-> 33568]

\* The register after n more bits of zeros, each one step of the division
\* by POLY (the n steps are halved, the first half evaluated first).
RECURSIVE ZeroBits(_, _)
ZeroBits(c, n) ==
    IF n = 0 THEN c
    ELSE IF n = 1
    THEN (IF c.lo % 2 = 1 THEN Xor(Shr1(c), POLY) ELSE Shr1(c))
    ELSE LET half == ZeroBits(c, n \div 2)
         IN  IF half.lo < U16 THEN ZeroBits(half, n - n \div 2) ELSE half

\* crc32(crc, buf): the register is inverted before and after, and takes
\* each byte in its low bits and then eight steps of division by POLY.
RECURSIVE crc32_range(_, _, _, _)
crc32_range(c, buf, i, j) ==
    IF i > j THEN c
    ELSE IF i = j THEN ZeroBits(Xor(c, U32Of(buf[i])), 8)
    ELSE LET m == (i + j) \div 2
             left == crc32_range(c, buf, i, m)
         IN  IF left.lo < U16 THEN crc32_range(left, buf, m + 1, j)
             ELSE left

crc32(crc, buf) == Not(crc32_range(Not(crc), buf, 1, Len(buf)))

\* crc32_combine(crc1, crc2, len2): crc1 carried over len2 bytes of zeros,
\* exclusive or crc2.
crc32_combine(crc1, crc2, len2) ==
    IF len2 = 0 THEN crc1 ELSE Xor(ZeroBits(crc1, 8 * len2), crc2)

CheckKinds == {"Crc32", "Adler32"}

\* Check::new: Adler32's sum starts at adler32(0, NULL, 0) = 1.
Check_new(k) ==
    IF k = "Adler32" THEN [sum |-> U32Of(1), amount |-> U32Of(0)]
    ELSE [sum |-> U32Of(0), amount |-> U32Of(0)]

\* Check::update(bytes).
Check_update(k, c, bytes) ==
    IF k = "Adler32"
    THEN [sum |-> adler32(c.sum, bytes),
          amount |-> U32Add(c.amount, U32Of(Len(bytes)))]
    ELSE [sum |-> crc32(c.sum, bytes),
          amount |-> U32Add(c.amount, U32Of(Len(bytes)))]

\* A faulty variant: combine is given the amount of self as the length.
Check_combine_self(k, c, other) ==
    IF k = "Adler32"
    THEN [sum |-> adler32_combine(c.sum, other.sum, c.amount),
          amount |-> U32Add(c.amount, other.amount)]
    ELSE [sum |-> crc32_combine(c.sum, other.sum, c.amount.lo),
          amount |-> U32Add(c.amount, other.amount)]

\* Check::combine(other), self the check of the bytes before other's.
Check_combine(k, c, other) ==
    IF k = "Adler32"
    THEN [sum |-> adler32_combine(c.sum, other.sum, other.amount),
          amount |-> U32Add(c.amount, other.amount)]
    ELSE [sum |-> crc32_combine(c.sum, other.sum, other.amount.lo),
          amount |-> U32Add(c.amount, other.amount)]

\* The byte sequences a check is updated with: the empty one, short ones
\* in both orders, and a run of LongRun bytes of 255, over which the sums
\* of Adler-32 pass BASE.
LongRun == 257

Parts ==
    {<<>>, <<0, 255>>, <<255, 0>>, [i \in 1..LongRun |-> 255]}

\* Largest number of parts a byte sequence is cut into.
MaxParts == 3

Partitions == UNION {[1..n -> Parts] : n \in 1..MaxParts}

\* One step of the caller of Check: a fresh check is updated with the next
\* part and combined into the running check (as ParCompress::run does with
\* the check of each block).
CombineNext ==
    /\ p_call.fn = "check"
    /\ p_result.res \in {"uncalled", "combined"}
    /\ LET i == IF p_result = Uncalled THEN 0 ELSE p_result.parts
           acc == IF p_result = Uncalled THEN Check_new(p_call.kind)
                  ELSE p_result.check
       IN  /\ i < Len(p_call.parts)
           /\ p_result' =
                 [res |-> "combined", parts |-> i + 1,
                  check |-> Check_combine(p_call.kind, acc,
                               Check_update(p_call.kind, Check_new(p_call.kind),
                                            p_call.parts[i + 1]))]
    /\ UNCHANGED <<cvars, dvars, hvars, p_call>>

NextK == CombineNext

InitK ==
    /\ NoPipeline
    /\ \E k \in CheckKinds : \E ps \in Partitions :
          pure_call([fn |-> "check", kind |-> k, parts |-> ps])

SpecK == InitK /\ [][NextK]_vars

\* ------------------------------------------- the amount of a running check
\* The amounts of Check::update and Check::combine alone, on block lengths
\* too large to write out as bytes.  Crc32 leaves its amount to
\* flate2::Crc, which adds modulo 2^32.  Adler32 adds with `+=` on a u32
\* (check.rs:115, 135): a sum of 2^32 or more wraps in a build without
\* overflow checks and panics in a build with them.
amount_add(k, a, b) ==
    IF k = "Adler32" /\ U32Overflows(a, b)
    THEN {[res |-> "combined", amount |-> U32Add(a, b)], [res |-> "panic"]}
    ELSE {[res |-> "combined", amount |-> U32Add(a, b)]}

\* The lengths of the blocks (bytes.len() as u32): small ones, 2^31 and
\* 2^32 - 1.
BlockLens == {U32Of(1), U32Of(2), [hi |-> U16 \div 2, lo |-> 0],
              [hi |-> U16 - 1, lo |-> U16 - 1]}

\* Largest number of blocks whose checks are combined.
MaxCombined == 3

BlockLenSeqs == UNION {[1..n -> BlockLens] : n \in 1..MaxCombined}

\* check.update(chunk) on a new check, then running_check.combine(&check)
\* (compress.rs:203-223), for the next block.
CombineAmount ==
    /\ p_call.fn = "amount"
    /\ p_result.res \in {"uncalled", "combined"}
    /\ LET i == IF p_result = Uncalled THEN 0 ELSE p_result.blocks
           acc == IF p_result = Uncalled THEN Check_new(p_call.kind).amount
                  ELSE p_result.amount
       IN  /\ i < Len(p_call.lens)
           /\ \E u \in amount_add(p_call.kind, Check_new(p_call.kind).amount,
                                  p_call.lens[i + 1]) :
                 IF u.res = "panic"
                 THEN p_result' = [res |-> "panic", blocks |-> i + 1]
                 ELSE \E r \in amount_add(p_call.kind, acc, u.amount) :
                         p_result' =
                            IF r.res = "panic"
                            THEN [res |-> "panic", blocks |-> i + 1]
                            ELSE [res |-> "combined", blocks |-> i + 1,
                                  amount |-> r.amount]
    /\ UNCHANGED <<cvars, dvars, hvars, p_call>>

NextA == CombineAmount

InitA ==
    /\ NoPipeline
    /\ \E k \in CheckKinds : \E ls \in BlockLenSeqs :
          pure_call([fn |-> "amount", kind |-> k, lens |-> ls])

SpecA == InitA /\ [][NextA]_vars

\* ------------------------------------------- the block size field of a block
\* A length (usize) is a record [hi, lo] that stands for hi * 2^16 + lo; a u32
\* has hi below 2^16.
SizeOf(n) == [hi |-> n \div U16, lo |-> n % U16]

\* a + n, without wrapping (a usize sum far from its limit).
SizeAdd(a, n) == [hi |-> a.hi + (a.lo + n) \div U16, lo |-> (a.lo + n) % U16]

\* a as u32: the low 32 bits.
AsU32(a) == [hi |-> a.hi % U16, lo |-> a.lo]

\* write_u16::<LittleEndian>, LittleEndian::read_u16 and their u32 forms.
LE16(v) == <<v % 256, v \div 256>>

ReadLE16(b) == b[1] + 256 * b[2]

LE32(x) == LE16(x.lo) \o LE16(x.hi)

ReadLE32(b) == [hi |-> ReadLE16(SubSeq(b, 3, 4)), lo |-> ReadLE16(SubSeq(b, 1, 2))]

\* The compression levels: Compression::fast(), the default and best().
Levels == {1, 6, 9}

\* The XFL byte of header_inner (mgzip.rs:243-249, bgzf.rs:270-276).
comp_value(level) == IF level >= 9 THEN 2 ELSE IF level <= 1 THEN 4 ELSE 0

\* mgzip::header_inner (mgzip.rs:239-268) with compressed_size: u32: its
\* outcomes, the header it returns or a panic.  compressed_size + 28 overflows a
\* u32 from 2^32 - 28 on: it wraps in a build without overflow checks and
\* panics in a build with them.
mgzip_header_inner(level, compressed_size) ==
    LET head == <<31, 139, 8, 4, 0, 0, 0, 0, comp_value(level), 255, 8, 0, 73, 71, 4, 0>>
        wrapped == [panic |-> FALSE,
                    bytes |-> head \o LE32(U32Add(compressed_size, SizeOf(28)))]
    IN IF U32Overflows(compressed_size, SizeOf(28))
       THEN {wrapped, [panic |-> TRUE]}
       ELSE {wrapped}

\* bgzf::header_inner (bgzf.rs:266-295) with compressed_size: u16.
bgzf_header_inner(level, compressed_size) ==
    LET head == <<31, 139, 8, 4, 0, 0, 0, 0, comp_value(level), 255, 6, 0, 66, 67, 2, 0>>
    IN {IF b = PanicValue
        THEN [panic |-> TRUE]
        ELSE [panic |-> FALSE, bytes |-> head \o LE16(b)] :
           b \in bsize(compressed_size)}

MGZIP_HEADER_SIZE == 20

MGZIP_FOOTER_SIZE == 8

\* mgzip::compress (mgzip.rs:214-237) and bgzf::compress (bgzf.rs:234-262)
\* on an input whose DEFLATE payload has len bytes: the set of outcomes, an
\* error, a panic, or the header and the total length of the block
\* (header, payload and footer).
encode_block(f, level, len) ==
    IF f = "Mgzip"
    THEN {IF h.panic
          THEN [res |-> "panic"]
          ELSE [res |-> "ok", header |-> h.bytes,
                size |-> SizeAdd(len, MGZIP_HEADER_SIZE + MGZIP_FOOTER_SIZE)] :
             h \in mgzip_header_inner(level, AsU32(len))}
    ELSE IF ~(len.hi = 0 /\ len.lo < MAX_BGZF_BLOCK_SIZE)
    THEN {[res |-> "err", err |-> GzpErr("BlockSizeExceeded")]}
    ELSE {IF h.panic
          THEN [res |-> "panic"]
          ELSE [res |-> "ok", header |-> h.bytes,
                size |-> SizeAdd(len, BGZF_HEADER_SIZE + BGZF_FOOTER_SIZE)] :
             h \in bgzf_header_inner(level, len.lo % U16)}

\* BlockFormatSpec::get_block_size of Mgzip and Bgzf (deflate.rs:422-425,
\* 571-574): read_u32(&bytes[16..]), and read_u16(&bytes[16..]) + 1.
get_block_size(f, bytes) ==
    IF f = "Mgzip"
    THEN ReadLE32(SubSeq(bytes, 17, 20))
    ELSE SizeAdd(SizeOf(ReadLE16(SubSeq(bytes, 17, 18))), 1)

\* The lengths of the DEFLATE payloads that are encoded: small ones, and
\* those within PayloadWindow of the largest value of the size field (of
\* MAX_BGZF_BLOCK_SIZE for Bgzf, of 2^32 for Mgzip).
EncodedLens(f) ==
    IF f = "Mgzip"
    THEN {SizeOf(n) : n \in 0..3}
         \cup {[hi |-> U16 - 1, lo |-> U16 - k] : k \in 1..PayloadWindow}
    ELSE {SizeOf(n) : n \in PayloadLens}

\* The block encoder of format f is run on a payload.
EncodeBlock ==
    /\ p_call.fn = "encode_block" /\ p_result = Uncalled
    /\ p_result' \in encode_block(p_call.format, p_call.level, p_call.len)
    /\ UNCHANGED <<cvars, dvars, hvars, p_call>>

\* let size = format.get_block_size(&buf)? on the header of the block
\* (decompress.rs:188).
GetBlockSize ==
    /\ p_call.fn = "encode_block" /\ p_result.res = "ok"
    /\ p_result' = [res |-> "sized", header |-> p_result.header,
                    size |-> p_result.size,
                    block_size |-> get_block_size(p_call.format, p_result.header)]
    /\ UNCHANGED <<cvars, dvars, hvars, p_call>>

NextS ==
    \/ EncodeBlock
    \/ GetBlockSize

InitS ==
    /\ NoPipeline
    /\ \E f \in BlockFormats : \E level \in Levels : \E n \in EncodedLens(f) :
          pure_call([fn |-> "encode_block", format |-> f, level |-> level, len |-> n])

SpecS == InitS /\ [][NextS]_vars

\* ---------------------------------------------------------------- decoding
\* The standard decoder of the format applied to the sink (GzDecoder in the
\* tests, deflate.rs:1063-1069).  A gzip stream is a header, DEFLATE blocks
\* of which exactly the final one is closed with Finish, and a trailer with
\* the CRC and the length of the decoded bytes; a block compressed against
\* a dictionary decodes only when the dictionary is the window the decoder
\* holds (the last DICT_SIZE bytes it has produced).  BGZF blocks decode
\* each on its own.  The result is [ok, data].
RECURSIVE DecodeBlocks(_, _)
DecodeBlocks(items, out) ==
    IF items = <<>> THEN [ok |-> TRUE, data |-> out]
    ELSE LET b == Head(items) IN
         IF b.kind # "block" THEN [ok |-> FALSE, data |-> out]
         ELSE IF b.dict # None
                 /\ (Len(out) < Len(b.dict) \/ Suffix(out, Len(b.dict)) # b.dict)
         THEN [ok |-> FALSE, data |-> out]
         ELSE DecodeBlocks(Tail(items), out \o b.data)

Decode(f, items) ==
    IF f = "Gzip"
    THEN IF Len(items) < 3 \/ items[1].kind # "header"
            \/ items[Len(items)].kind # "footer"
         THEN [ok |-> FALSE, data |-> <<>>]
         ELSE LET blocks == SubSeq(items, 2, Len(items) - 1)
                  d == DecodeBlocks(blocks, <<>>)
              IN [ok |-> /\ d.ok
                         /\ \A i \in 1..Len(blocks) :
                               blocks[i].last <=> i = Len(blocks)
                         /\ items[Len(items)].check =
                               [sum |-> CrcOf(0, d.data), amount |-> Len(d.data)],
                  data |-> d.data]
    ELSE DecodeBlocks(items, <<>>)

\* ------------------------------------------------------------------ claims
SinkBlocks == SinkBlocksOf(sink.items)

\* C1: for dispatched blocks i < j the compressed bytes of block i are in
\* the sink before any byte of block j, in every interleaving: the blocks in
\* the sink are the blocks 1..k in dispatch order, whatever the order in
\* which the workers replied.
C1_SinkInDispatchOrder ==
    IsPar =>
        \A i \in 1..Len(SinkBlocks) :
            /\ SinkBlocks[i].id = i
            /\ i <= Len(dispatched)
            /\ SinkBlocks[i].data = dispatched[i].buffer

\* A later block's reply is ready while the coordinator still awaits an
\* earlier block, after it has written a block.
C1_Witness ==
    /\ coord.pc = "await"
    /\ oneshot[coord.cur].st = "open"
    /\ \E j \in (coord.cur + 1)..Len(oneshot) : oneshot[j].st = "sent"
    /\ Len(SinkBlocks) >= 1

\* C2: round trip: when finish has returned Ok after calls that all returned
\* Ok, the standard decoder reads from the sink exactly the bytes the write
\* calls accepted, in order.
C2_RoundTrip ==
    (ret.op = "finish" /\ ret.res = "ok" /\ ~ret.priorErr) =>
        /\ Decode(config.format, sink.items).ok
        /\ Decode(config.format, sink.items).data = [i \in 1..accepted |-> i]

\* finish has returned Ok on a stream of several blocks written by several
\* write calls.
C2_Witness ==
    /\ IsPar /\ ret.op = "finish" /\ ret.res = "ok"
    /\ accepted = MaxInput
    /\ Len(SinkBlocks) >= 3
    /\ config.format = "Gzip"

\* C4: a stream that finishes successfully holds exactly one header, before
\* every block, and exactly one trailer, after the last block; in every
\* state a header is the first item of the sink and a trailer the last one.
C4_OneHeaderOneTrailer ==
    /\ \A i \in 1..Len(sink.items) :
          /\ sink.items[i].kind = "header" => i = 1
          /\ sink.items[i].kind = "footer" => i = Len(sink.items)
    /\ (IsPar /\ config.format = "Gzip" /\ coord.pc = "done"
           /\ coord.result = NoErr) =>
          /\ Len(sink.items) = Len(dispatched) + 2
          /\ sink.items[1].kind = "header"
          /\ sink.items[Len(sink.items)].kind = "footer"
          /\ \A i \in 2..(Len(sink.items) - 1) : sink.items[i].kind = "block"

\* The coordinator has returned Ok, and a call made after finish has
\* returned.
C4_Witness ==
    /\ IsPar /\ config.format = "Gzip" /\ coord.pc = "done" /\ coord.result = NoErr
    /\ Len(SinkBlocks) >= 2
    /\ calls.late >= 1 /\ call.pc = "idle"

\* The in-order fold of combine over the checks of blocks, each check a
\* fresh one updated with the block's own bytes.
RECURSIVE FoldChecks(_, _, _)
FoldChecks(f, acc, msgs) ==
    IF msgs = <<>> THEN acc
    ELSE FoldChecks(f, check_combine(f, acc, check_update(f, create_check(f),
                                                         Head(msgs).buffer)),
                    Tail(msgs))

\* C5: the running checksum is the fold, in dispatch order, of combine over
\* the checks of the blocks written so far, each computed over that block's
\* uncompressed bytes only; the trailer carries the fold over all blocks.
C5_ChecksumInDispatchOrder ==
    IsPar =>
    /\ coord.pc \in {"recv", "await", "footer", "join"} =>
          coord.running_check =
              FoldChecks(config.format, create_check(config.format),
                         SubSeq(dispatched, 1, Len(SinkBlocks)))
    /\ \A i \in 1..Len(sink.items) :
          sink.items[i].kind = "footer" =>
              sink.items[i].check =
                  FoldChecks(config.format, create_check(config.format), dispatched)

\* A trailer is in the sink after blocks whose replies arrived out of order
\* had been combined: at least three blocks, two workers.
C5_Witness ==
    /\ IsPar /\ config.format = "Gzip" /\ config.num_threads = 2
    /\ Len(SinkBlocks) >= 3
    /\ sink.items[Len(sink.items)].kind = "footer"
    /\ sink.items[Len(sink.items)].check.sum # 0

\* C6: every public call of the parallel compressor returns: there is no
\* state in which a call is waiting on a send or on the join of the
\* coordinator and no thread can take a step any more.
C6_CallsReturn ==
    (IsPar /\ call.pc \in {"send_r", "send_m", "join"}) => ENABLED Next

\* C8: a public call made after a worker has failed encoding a block does
\* not return success.
C8_NoSuccessAfterWorkerFailure ==
    (IsPar /\ ret.afterFail) => ret.res # "ok"

\* C9: the call that detects the coordinator's error E returns E: an I/O
\* error of the sink comes back with its kind, and when a worker's encode
\* has failed the error returned names the codec error, not a channel
\* error.
C9_ReturnsCoordinatorError ==
    (IsPar /\ ret.res = "err") =>
        /\ coord.result.variant = "Io" => ret.err = coord.result
        /\ (coord.result.variant # "Io" /\ EncodeFailed) =>
              \E e \in CodecErrors : ret.err.variant = e \/ ret.err.inner = e

\* C10: once a public call of the parallel compressor has returned an
\* error, no later public call returns success.
C10_FailedIsAbsorbing ==
    (IsPar /\ ret.priorErr) => ret.res # "ok"

\* The bytes of the well-formed blocks of the source, in source order.
GoodData ==
    Concat([i \in 1..Len(source) |->
               IF source[i] = "good" THEN BlockData(i) ELSE <<>>])

\* C3: read returns Ok(0) only after every byte of every block of the
\* source has been returned, and the bytes returned are the blocks' bytes in
\* source order.
C3_ZeroOnlyAfterAllBytes ==
    (d_ret.res = "ok" /\ d_ret.n = 0) => delivered = GoodData

\* C7: a read call that reaches a block a worker has failed on returns:
\* there is no state in which read is waiting on a channel or on the join of
\* the reader thread and no thread can take a step any more.
C7_ReadReturns ==
    d_call.pc \in {"recv", "await", "join"} => ENABLED NextD

\* C11: once read has returned an error, no later read returns Ok.
C11_ReadFailedIsTerminal ==
    d_ret.priorErr => d_ret.res # "ok"

\* C12: a finish call made right after a finish call ends the way the
\* first one did (Ok after Ok, an error after an error).
C12_FinishTwiceSameResult ==
    (ret.op = "finish" /\ ret.prevOp = "finish") => ret.res = ret.prevRes

\* C13: a write call made on a writer whose finish has returned Ok does not
\* return success.
C13_WriteAfterFinishFails ==
    (ret.op = "write" /\ ret.prevOp = "finish" /\ ret.prevRes = "ok")
        => ret.res # "ok"


\* C14: a parallel writer dropped without a finish call, after calls that
\* all returned Ok, has finished the stream by the time the drop returns:
\* the accumulator is empty, exactly the final dispatched block is marked
\* last, every block and the format's trailer are in the sink, the sink is
\* flushed, and the sink decodes to the accepted bytes as it does after an
\* explicit finish.
C14_DropFinishes ==
    (ret.op = "drop" /\ ret.res = "ok" /\ ~ret.priorErr) =>
        /\ buffer = <<>>
        /\ dispatched # <<>>
        /\ \A i \in 1..Len(dispatched) :
               dispatched[i].is_last <=> i = Len(dispatched)
        /\ Len(SinkBlocks) = Len(dispatched)
        /\ config.format = "Gzip" => sink.items[Len(sink.items)].kind = "footer"
        /\ sink.flushed
        /\ Decode(config.format, sink.items).ok
        /\ Decode(config.format, sink.items).data = [i \in 1..accepted |-> i]

\* A drop has finished a stream of several blocks whose last bytes were
\* still in the accumulator when the writer was dropped.
C14_Witness ==
    /\ ret.op = "drop" /\ ret.res = "ok" /\ ~ret.priorErr
    /\ ret.prevOp = "write"
    /\ accepted = MaxInput
    /\ Len(dispatched) >= 2
    /\ dispatched[Len(dispatched)].buffer # <<>>

\* The number of blocks the producer has dispatched (both sends made) that
\* the coordinator has not yet written to the sink.
Unwritten == Len(dispatched) - Len(SinkBlocks)

\* C15 as stated: at most 2 N blocks are dispatched and not yet written.
C15_AtMostTwoNUnwritten ==
    IsPar => Unwritten <= 2 * config.num_threads

\* C15 as amended: at most 2 N + 1 blocks are dispatched and not yet
\* written: the 2 N receivers the writer channel holds and the one the
\* coordinator has taken from it and is waiting on.
C15_AtMostTwoNPlusOneUnwritten ==
    IsPar => Unwritten <= 2 * config.num_threads + 1

\* The writer channel is full, the coordinator holds one more receiver, and
\* nothing of them has reached the sink.
C15_Witness ==
    /\ IsPar
    /\ Len(writer_q) = ChannelCap
    /\ coord.pc = "await"
    /\ Unwritten = 2 * config.num_threads + 1

\* C16: for BGZF and a non-empty input, when finish has returned Ok the
\* sink ends with the EOF sentinel, and no block before the final one is
\* followed by the sentinel, for the parallel and the synchronous writer.
C16_BgzfEndsWithEof ==
    (config.format = "Bgzf" /\ ret.op = "finish" /\ ret.res = "ok"
        /\ ~ret.priorErr /\ accepted >= 1) =>
        /\ sink.items # <<>>
        /\ \A i \in 1..Len(sink.items) : sink.items[i].last <=> i = Len(sink.items)

\* The number of BGZF blocks in a sink: every block item is one block, and
\* one more (the EOF block) when the sentinel follows it.
BgzfBlocksIn(items) ==
    Len(items) + Cardinality({i \in 1..Len(items) : items[i].last})

\* C17: when finish has returned Ok on a writer that no write call was made
\* on, the sink decodes to the empty sequence; a Gzip sink is a header, the
\* blocks and a trailer, and a BGZF sink holds at most one (empty) block.
C17_EmptyInput ==
    (ret.op = "finish" /\ ret.res = "ok" /\ ~ret.priorErr /\ offered = 0) =>
        /\ Decode(config.format, sink.items).ok
        /\ Decode(config.format, sink.items).data = <<>>
        /\ config.format = "Gzip" =>
              /\ sink.items[1].kind = "header"
              /\ sink.items[Len(sink.items)].kind = "footer"
        /\ config.format = "Bgzf" => BgzfBlocksIn(sink.items) <= 1

\* The position in the source of the header with the extra-field flag
\* clear, or 0.
NoExtraAt ==
    IF \E i \in 1..Len(source) : source[i] = "noextra"
    THEN CHOOSE i \in 1..Len(source) : source[i] = "noextra"
    ELSE 0

\* C18: when the source holds well-formed blocks and then a header with the
\* extra-field flag clear, no job is made for that block (the jobs are those
\* of the blocks before it), and the read that comes after the bytes of the
\* blocks before it does not return Ok(0) but the invalid-header error.
C18_InvalidHeaderRejected ==
    (NoExtraAt > 0 /\ \A i \in 1..(NoExtraAt - 1) : source[i] \in {"good", "empty"}) =>
        /\ Len(d_oneshot) < NoExtraAt
        /\ d_coord.pos < NoExtraAt
        /\ (d_ret.res = "ok" /\ ~d_ret.priorErr) => d_ret.n > 0
        /\ d_ret.res = "err" => d_ret.err = IoErr("Other", "InvalidHeader")

\* The reader thread has rejected the header while a block before it was
\* still with a worker, and read has returned the error after the data.
C18_Witness ==
    /\ NoExtraAt = 3
    /\ source[1] = "good" /\ source[2] = "good"
    /\ d_ret.res = "err" /\ d_ret.err = IoErr("Other", "InvalidHeader")
    /\ Len(delivered) = 2 * BlockLen

\* C19: check_header accepts a header exactly when its magic bytes are
\* 1f 8b, its extra-field flag is set and its subfield identifier is the
\* format's, and what it returns otherwise is the invalid-header error.
C19_CheckHeaderRejects ==
    h_result # Unchecked =>
        /\ h_result = NoErr <=>
              /\ h_bytes.id1 = 31 /\ h_bytes.id2 = 139
              /\ (h_bytes.flg \div 4) % 2 = 1
              /\ <<h_bytes.si1, h_bytes.si2>> = SubfieldId(h_format)
        /\ h_result # NoErr => h_result = GzpErr("InvalidHeader")

\* C20: a source that ends before any byte of a header ends the stream
\* cleanly, and a source that ends inside a header, or fails with an I/O
\* error while a header is read, makes read return an error: read does not
\* return Ok(0) on such a source unless it has returned an error before.
C20_PartialHeaderFails ==
    (/\ \E i \in 1..Len(source) : source[i] \in {"partial", "ioerr"}
     /\ \A i \in 1..Len(source) : source[i] # "bad"
     /\ d_ret.res = "ok" /\ ~d_ret.priorErr) => d_ret.n > 0

\* C21: when the source holds well-formed blocks and then a block whose
\* declared size is larger than the bytes that remain, every error read
\* returns is the invalid-header error, and read does not return Ok(0)
\* before it has returned the error.
C21_SizeMismatchIsHeaderError ==
    (/\ \E i \in 1..Len(source) : source[i] = "truncated"
     /\ \A i \in 1..Len(source) : source[i] # "bad") =>
        /\ d_ret.res = "err" => d_ret.err = IoErr("Other", "InvalidHeader")
        /\ (d_ret.res = "ok" /\ ~d_ret.priorErr) => d_ret.n > 0

\* The source holds a block whose check value does not match, and every
\* failure of a worker so far is that mismatch.
CheckMismatchOnly ==
    /\ \E i \in 1..Len(source) : source[i] = "bad"
    /\ \A i \in 1..Len(source) : source[i] \in BlockKinds
    /\ \A w \in DWorkers : d_workers[w].result.variant # "DecompressError"

\* C22: when the check value of a block does not match, read returns the
\* checksum-mismatch error: every error read returns is InvalidCheck, read
\* returns no Ok(0) before it, no byte of the block reaches the caller, and
\* a read that waits once a worker has met the mismatch does return.
C22_ChecksumMismatchReturned ==
    CheckMismatchOnly =>
        /\ d_ret.res = "err" => d_ret.err = IoErr("Other", "InvalidCheck")
        /\ (d_ret.res = "ok" /\ ~d_ret.priorErr) => d_ret.n > 0
        /\ \E k \in 0..Len(GoodData) : delivered = SubSeq(GoodData, 1, k)
        /\ d_call.pc \in {"recv", "await", "join"} => ENABLED NextD

\* C23: bgzf::compress accepts a block whose framed size (header, payload
\* and trailer) is at most 65536 bytes, returns BlockSizeExceeded for a
\* larger one, and the BSIZE field of every accepted block is its total
\* size minus one, below 2^16.
C23_BgzfBlockSizeCap ==
    (p_call.fn = "compress" /\ p_result # Uncalled) =>
        LET framed == BGZF_HEADER_SIZE + p_call.len + BGZF_FOOTER_SIZE IN
        /\ framed <= MAX_BGZF_BLOCK_SIZE => p_result.res = "ok"
        /\ framed > MAX_BGZF_BLOCK_SIZE =>
              p_result = [res |-> "err", err |-> GzpErr("BlockSizeExceeded")]
        /\ p_result.res = "ok" =>
              /\ p_result.bsize = p_result.size - 1
              /\ p_result.bsize < U16

\* C24: the writer ZBuilder::from_writer returns is the synchronous one
\* exactly when num_threads is 0 or 1; the synchronous writer runs no thread
\* and dispatches nothing; and on either writer no write or finish call
\* panics as long as the sink has not failed, no call has returned an error
\* and finish has not been called before.
C24_BuilderChoosesWriter ==
    config \in ZConfigs =>
        /\ IsPar <=> config.num_threads > 1
        /\ ~IsPar =>
              /\ Workers = {}
              /\ coord.pc = "header"
              /\ writer_q = <<>> /\ comp_q = <<>> /\ oneshot = <<>>
        /\ (ret.res = "panic" /\ ret.op \in {"write", "finish"}) =>
              \/ ret.priorErr \/ ret.prevRes = "err"
              \/ calls.late >= 1
              \/ ret.err # NoErr

\* The writer built for one thread is the synchronous one, and its finish
\* has returned Ok after writes of the whole input.
C24_Witness ==
    /\ config \in ZConfigs
    /\ config.num_threads = 1
    /\ ret.op = "finish" /\ ret.res = "ok" /\ ret.prevOp = "write"
    /\ accepted = MaxInput


\* C25: on the builders of the parallel writer and the parallel reader,
\* buffer_size below DICT_SIZE returns the BufferSize error and num_threads
\* of 0 returns the NumThreads error, and no parallel writer or reader is
\* built with a buffer size below DICT_SIZE or with zero workers.
C25_ConfigurationValidated ==
    p_call.fn = "builder" =>
        /\ (p_call.kind # "ZBuilder" /\ p_result.res \in {"ok", "err"}
            /\ p_result.call = "buffer_size" /\ p_result.arg < DICT_SIZE) =>
               (p_result.res = "err" /\ p_result.err = GzpErr("BufferSize"))
        /\ (p_call.kind # "ZBuilder" /\ p_result.res \in {"ok", "err"}
            /\ p_result.call = "num_threads" /\ p_result.arg = 0) =>
               (p_result.res = "err" /\ p_result.err = GzpErr("NumThreads"))
        /\ (p_result.res = "built"
            /\ p_result.backend \in {"ParCompress", "ParDecompress"}) =>
               /\ p_result.buffer_size >= DICT_SIZE
               /\ p_result.num_threads >= 1


\* C26: for CRC32 and Adler32 and any partition of a byte sequence,
\* combining in order the checks updated with each part gives the sum and
\* the amount of one check updated with the whole sequence.
C26_CombineLaw ==
    (p_call.fn = "check" /\ p_result.res = "combined") =>
        p_result.check =
            Check_update(p_call.kind, Check_new(p_call.kind),
                         Concat(SubSeq(p_call.parts, 1, p_result.parts)))

\* Three parts, the long run among them and not last, have been combined.
C26_Witness ==
    /\ p_call.fn = "check" /\ p_result.res = "combined"
    /\ p_result.parts = 3
    /\ Len(p_call.parts[1]) = LongRun
    /\ p_call.parts[2] = <<255, 0>>
    /\ p_call.parts[3] = <<0, 255>>


\* The sum of the lengths ls[1..n] modulo 2^32.
RECURSIVE SumMod32(_, _)
SumMod32(ls, n) ==
    IF n = 0 THEN U32Of(0) ELSE U32Add(SumMod32(ls, n - 1), ls[n])

\* C27: the amount of the running check after the checks of the blocks
\* are combined, which the gzip trailer carries as its length field, is
\* the sum of the block lengths modulo 2^32, and no addition fails on
\* overflow.
C27_AmountIsSumMod32 ==
    (p_call.fn = "amount" /\ p_result # Uncalled) =>
        /\ p_result.res = "combined"
        /\ p_result.amount = SumMod32(p_call.lens, p_result.blocks)


\* C28: when finish on the parallel writer has returned Ok, every worker
\* thread has exited, every dispatched block is in the sink, the trailer is
\* written and the sink flushed, and no message and no reply is left in a
\* channel (the state in which finish has returned and no later call has
\* begun).
C28_FinishOkQuiescent ==
    (IsPar /\ ret.op = "finish" /\ ret.res = "ok" /\ call.pc = "idle") =>
        /\ \A w \in Workers : workers[w].pc = "exit"
        /\ coord.pc = "done"
        /\ dispatched # <<>>
        /\ Len(SinkBlocks) = Len(dispatched)
        /\ \A i \in 1..Len(dispatched) : SinkBlocks[i].id = dispatched[i].id
        /\ config.format = "Gzip" => sink.items[Len(sink.items)].kind = "footer"
        /\ config.format = "Bgzf" => SinkBlocks[Len(SinkBlocks)].last
        /\ sink.flushed
        /\ writer_q = <<>> /\ comp_q = <<>>
        /\ \A i \in DOMAIN oneshot : oneshot[i].st = "taken"

\* finish has returned Ok on a parallel writer with two workers after the
\* whole input was written in several blocks.
C28_Witness ==
    /\ IsPar /\ ret.op = "finish" /\ ret.res = "ok" /\ call.pc = "idle"
    /\ config.num_threads = 2
    /\ accepted = MaxInput
    /\ Len(dispatched) >= 2


\* ParCompress::write is sending a block it has split off the accumulator.
WriteDispatching == IsPar /\ call.op = "write" /\ call.pc \in {"send_r", "send_m"}

SplitBlocks ==
    {dispatched[i].buffer : i \in 1..Len(dispatched)}
    \cup (IF call.pc \in {"send_r", "send_m"} THEN {call.m.buffer} ELSE {})

\* C30: every block the parallel writer dispatches, in write, flush or
\* finish and whatever the sizes of the write buffers, is at most
\* buffer_size bytes long.
C30_BlockAtMostBufferSize ==
    IsPar => \A blk \in SplitBlocks : Len(blk) <= buffer_size

\* After a write longer than a block, a flush and a finish, full and
\* shorter blocks have been dispatched.
C30_Witness ==
    /\ IsPar /\ ret.op = "finish" /\ ret.res = "ok"
    /\ calls.flushes >= 1
    /\ Len(dispatched) >= 3
    /\ \E i \in 1..Len(dispatched) : Len(dispatched[i].buffer) = buffer_size
    /\ \E i \in 1..Len(dispatched) :
          /\ dispatched[i].buffer # <<>>
          /\ Len(dispatched[i].buffer) < buffer_size


\* The producer is sending a block: its receiver on the writer channel or
\* its job on the compressor channel.
Sending == IsPar /\ call.pc \in {"send_r", "send_m"}

\* The positions of the dispatched blocks that carry is_last = true.
LastMarked == {i \in 1..Len(dispatched) : dispatched[i].is_last}

DispatchedBytes == Concat([i \in 1..Len(dispatched) |-> dispatched[i].buffer])

\* C32: flush dispatches the entire accumulator with is_last = false: when
\* flush has returned Ok (and no later call has begun) the accumulator is
\* empty, the dispatched blocks hold every byte written so far, none of
\* them is marked last and the stream is still open; a block flush is
\* sending is not marked last; and when finish has returned Ok after a
\* flush and calls that all returned Ok, the standard decoder reads from the
\* sink the bytes written, as it does without the flush.
C32_FlushDispatchesAll ==
    /\ (IsPar /\ ret.op = "flush" /\ ret.res = "ok" /\ call.pc = "idle") =>
          /\ buffer = <<>>
          /\ DispatchedBytes = [i \in 1..offered |-> i]
          /\ LastMarked = {}
          /\ tx_writer /\ tx_compressor /\ handle
    /\ (Sending /\ call.op = "flush") => ~call.m.is_last
    /\ (IsPar /\ ret.op = "finish" /\ ret.res = "ok" /\ ~ret.priorErr
           /\ call.pc = "idle" /\ calls.flushes >= 1) =>
          /\ Decode(config.format, sink.items).ok
          /\ Decode(config.format, sink.items).data = [i \in 1..offered |-> i]
          /\ Cardinality(LastMarked) = 1

\* flush has returned Ok after it had dispatched a block shorter than the
\* block size that followed a full block.
C32_Witness ==
    /\ IsPar /\ ret.op = "flush" /\ ret.res = "ok" /\ call.pc = "idle"
    /\ Len(dispatched) >= 2
    /\ Len(dispatched[Len(dispatched) - 1].buffer) = buffer_size
    /\ dispatched[Len(dispatched)].buffer # <<>>
    /\ Len(dispatched[Len(dispatched)].buffer) < buffer_size


\* C33: for every dispatched block exactly one receiver is sent on the
\* writer channel and exactly one job on the compressor channel, the
\* receiver before the job: in every state the i-th receiver ever sent is
\* the reply end of the i-th job ever sent, no receiver and no job is sent
\* twice, and the number of receivers sent is the number of jobs sent or
\* one more (one more while the job of the newest receiver is being sent).
C33_ReceiverThenJob ==
    IsPar =>
        /\ Len(sent_r) \in {Len(dispatched), Len(dispatched) + 1}
        /\ \A i \in 1..Len(dispatched) : sent_r[i] = dispatched[i].id
        /\ \A i, j \in 1..Len(sent_r) : sent_r[i] = sent_r[j] => i = j
        /\ call.pc = "send_m" =>
              /\ Len(sent_r) = Len(dispatched) + 1
              /\ sent_r[Len(sent_r)] = call.m.id
        /\ call.pc = "send_r" => \A i \in 1..Len(sent_r) : sent_r[i] # call.m.id

\* The job of the third receiver is being sent with two workers, after two
\* blocks were dispatched.
C33_Witness ==
    /\ IsPar /\ config.num_threads = 2
    /\ call.pc = "send_m"
    /\ Len(dispatched) = 2
    /\ Len(sent_r) = 3


\* The dictionary the job after block prev is to carry: the last DICT_SIZE
\* bytes of prev when the format needs a dictionary, prev holds that many
\* bytes and is not the last block (compress.rs:257-259, 332-336).
DictAfter(f, prev) ==
    IF needs_dict(f) /\ Len(prev.buffer) >= DICT_SIZE /\ ~prev.is_last
    THEN Suffix(prev.buffer, DICT_SIZE) ELSE None

\* C34: the dictionary of a job is absent or exactly the last DICT_SIZE
\* bytes of the block dispatched immediately before it, and it is present
\* exactly when the format needs a dictionary and that block held at least
\* DICT_SIZE bytes and was not the last block; the first job carries none,
\* and a format that needs none carries none.
C34_DictionaryCarryOver ==
    IsPar =>
        /\ \A i \in 1..Len(dispatched) :
              dispatched[i].dictionary =
                  IF i = 1 THEN None
                  ELSE DictAfter(config.format, dispatched[i - 1])
        /\ config.format = "Bgzf" =>
              \A i \in 1..Len(dispatched) : dispatched[i].dictionary = None

\* A block longer than DICT_SIZE was dispatched, then a shorter one that
\* flush cut, which carries the tail of the first, and then a block that
\* carries no dictionary.
C34_Witness ==
    /\ IsPar /\ config.format = "Gzip"
    /\ Len(dispatched) >= 3
    /\ \E i \in 1..(Len(dispatched) - 2) :
          /\ Len(dispatched[i].buffer) > DICT_SIZE
          /\ dispatched[i + 1].dictionary = Suffix(dispatched[i].buffer, DICT_SIZE)
          /\ dispatched[i + 1].dictionary # dispatched[i].buffer
          /\ Len(dispatched[i + 1].buffer) < DICT_SIZE
          /\ dispatched[i + 2].dictionary = None
          /\ dispatched[i + 2].buffer # <<>>


\* The payloads with no data a worker may meet: a stored CRC of 0 or not,
\* and bytes before the footer that decode_block would accept or reject.
EmptyPayloads == [sum : {0, 1}, amount : {0}, deflate : {<<>>, Corrupt}]

\* A worker has left its loop on a block it could not decode or whose check
\* did not match.
DWorkerRejected ==
    \E w \in DWorkers :
        /\ d_workers[w].pc = "exit"
        /\ d_workers[w].result.variant \in DecodeErrors

\* C35: a block whose footer declares an amount of 0 is not decoded, passes
\* the check exactly when its stored CRC is 0 and contributes no byte: the
\* worker body accepts a payload with no data exactly when its stored CRC is
\* 0, whatever the bytes before the footer; the reply for such a block
\* holds no bytes, and no worker rejects a block of a source without bad
\* blocks; and read does not return 0 because of it: as long as no read has
\* failed, the bytes returned are a prefix of the bytes of the well-formed
\* blocks, and read returns Ok(0) only after all of them.
C35_EmptyBlockSkipped ==
    /\ \A m \in EmptyPayloads :
          /\ worker_body(m).err = NoErr <=> m.sum = 0
          /\ worker_body(m).result = <<>>
    /\ \A id \in DOMAIN d_oneshot :
          (source[id] = "empty" /\ d_oneshot[id].st = "sent") =>
              d_oneshot[id].data = <<>>
    /\ (\A i \in DOMAIN source : source[i] # "bad") => ~DWorkerRejected
    /\ (d_ret.res # "err" /\ ~d_ret.priorErr) =>
          /\ Len(delivered) <= Len(GoodData)
          /\ delivered = SubSeq(GoodData, 1, Len(delivered))
          /\ (d_ret.res = "ok" /\ d_ret.n = 0) => delivered = GoodData

\* read has returned Ok(0) after it had returned every byte of a source of
\* four blocks in which an empty block lies between well-formed ones.
C35_Witness ==
    /\ d_ret.res = "ok" /\ d_ret.n = 0 /\ ~d_ret.priorErr
    /\ Len(source) = 4
    /\ \E i \in 1..(Len(source) - 2) :
          source[i] = "good" /\ source[i + 1] = "empty" /\ source[i + 2] = "good"
    /\ delivered = GoodData
    /\ Len(delivered) >= 2 * BlockLen


\* C36: for every block the BGZF or the MGZIP block encoder produces,
\* get_block_size applied to the block's header returns the total length
\* of the block (header, DEFLATE payload and 8-byte footer).
C36_BlockSizeRoundTrip ==
    (p_call.fn = "encode_block" /\ p_result.res = "sized") =>
        p_result.block_size = p_result.size


\* The workers that hold the job of id i, the number of its copies in the
\* compressor channel, the number of holders of the receiver of its reply
\* (the writer channel and the coordinator), and the number of times its
\* encoded block is in the sink.
JobHolders(i) == {w \in Workers : workers[w].pc = "encode" /\ workers[w].m.id = i}

JobsQueued(i) == Cardinality({k \in 1..Len(comp_q) : comp_q[k].id = i})

ReplyHolders(i) ==
    Cardinality({k \in 1..Len(writer_q) : writer_q[k] = i})
        + (IF coord.pc = "await" /\ coord.cur = i THEN 1 ELSE 0)

TimesWritten(i) ==
    Cardinality({k \in 1..Len(sink.items) :
                    sink.items[k].kind = "block" /\ sink.items[k].id = i})

\* C37: each job placed on the compressor channel is taken by one worker
\* and encoded once, each oneshot receives at most one message, and each
\* reply is consumed and written to the sink at most once, in every
\* interleaving.  A job is in the channel or with one worker, never both and
\* never twice; once its oneshot holds a reply (or the reply was taken) the
\* job is with nobody, so it is not encoded again and no second reply is
\* sent; the receiver of a reply has one holder until the reply is taken and
\* none after; the block is in the sink at most once, and only after its
\* reply was taken.  When finish (called or run by drop) has returned Ok
\* every dispatched job was encoded and written exactly once.
C37_JobExactlyOnce ==
    IsPar =>
        /\ \A i \in 1..Len(oneshot) :
              /\ JobsQueued(i) + Cardinality(JobHolders(i)) <= 1
              /\ oneshot[i].st # "open" => JobsQueued(i) + Cardinality(JobHolders(i)) = 0
              /\ JobsQueued(i) + Cardinality(JobHolders(i)) = 1 =>
                    \E k \in 1..Len(dispatched) : dispatched[k].id = i
              /\ ReplyHolders(i) <= 1
              /\ oneshot[i].st = "taken" => ReplyHolders(i) = 0
              /\ TimesWritten(i) <= 1
              /\ TimesWritten(i) = 1 => oneshot[i].st = "taken"
        /\ (ret.op \in {"finish", "drop"} /\ ret.res = "ok" /\ ~tx_compressor) =>
              \A k \in 1..Len(dispatched) :
                  /\ oneshot[dispatched[k].id].st = "taken"
                  /\ TimesWritten(dispatched[k].id) = 1

\* Two workers hold two jobs at once while the block of an earlier job is
\* in the sink and a later job waits in the channel.
C37_Witness ==
    /\ IsPar
    /\ \E v, w \in Workers :
          /\ v # w
          /\ workers[v].pc = "encode" /\ workers[w].pc = "encode"
          /\ workers[v].m.id # workers[w].m.id
    /\ \E i \in 1..Len(oneshot) : TimesWritten(i) = 1
    /\ comp_q # <<>>


\* The trailer items in the sink.
Trailers == {k \in 1..Len(sink.items) : sink.items[k].kind = "footer"}

\* C38 as stated: if the coordinator fails, no trailer is written.
C38_NoTrailerOnFailure ==
    (IsPar /\ coord.pc = "done" /\ coord.result # NoErr) => Trailers = {}


\* C38, amended: the trailer is written only after the writer channel has
\* closed cleanly and every received reply has been written.  While the
\* sink holds a trailer it holds one, as its last item, the writer channel
\* has no sender and is empty, and the reply of every receiver sent on it
\* was taken and its block written once, so the trailer never ends a
\* truncated stream; a coordinator that failed on a missing reply or on a
\* write of the header, a block or the trailer has written no trailer.  The
\* coordinator can still fail after it wrote the trailer: the error is then
\* the error of the final flush of the sink.
C38_TrailerOnlyAfterCleanClose ==
    IsPar =>
        /\ Trailers # {} =>
              /\ Trailers = {Len(sink.items)}
              /\ ~tx_writer /\ writer_q = <<>>
              /\ coord.pc \in {"join", "done"}
              /\ \A k \in 1..Len(sent_r) :
                    /\ oneshot[sent_r[k]].st = "taken"
                    /\ TimesWritten(sent_r[k]) = 1
              /\ (coord.pc = "done" /\ coord.result # NoErr) =>
                    coord.result.variant = "Io"
        /\ (coord.pc = "done" /\ coord.result # NoErr /\ coord.result.variant # "Io") =>
              Trailers = {}
        /\ (coord.pc = "done" /\ coord.result # NoErr
                /\ \E k \in 1..Len(sent_r) : TimesWritten(sent_r[k]) = 0) =>
              Trailers = {}

\* The coordinator has failed with an I/O error and the sink holds the
\* header, two blocks and the trailer.
C38_Witness ==
    /\ IsPar /\ coord.pc = "done" /\ coord.result.variant = "Io"
    /\ Trailers # {}
    /\ Len(sink.items) >= 4
    /\ ~sink.flushed


\* The blocks of an input of L bytes at block size B, as one write of the
\* whole input followed by finish dispatches them (compress.rs:328-336,
\* 246-276): blocks of B bytes while more than B bytes are left, then the
\* rest (1..B bytes, or none for an empty input) as the last block; with a
\* format that needs one, a block's dictionary is the last DICT_SIZE bytes
\* of the block before it.
BlockCount(B, L) == IF L = 0 THEN 1 ELSE (L + B - 1) \div B

BlockBytes(B, L, k) == [i \in 1..(Min(k * B, L) - (k - 1) * B) |-> (k - 1) * B + i]

BlockOf(f, B, L, k) ==
    NewMessage(k, BlockBytes(B, L, k),
               IF k > 1 /\ needs_dict(f)
               THEN Suffix(BlockBytes(B, L, k - 1), DICT_SIZE) ELSE None,
               k = BlockCount(B, L))

BlocksOf(f, B, L) == [k \in 1..BlockCount(B, L) |-> BlockOf(f, B, L, k)]

\* The stream of an input of L bytes: the header, the encoded blocks in
\* order and the trailer with the check of the whole input.
StreamOf(f, B, L) ==
    header(f)
        \o [k \in 1..BlockCount(B, L) |-> Encode(f, BlockOf(f, B, L, k))]
        \o footer(f, check_update(f, create_check(f), [i \in 1..L |-> i]))

\* finish has returned Ok and nothing was offered since.
Finished ==
    /\ IsPar /\ ret.op = "finish" /\ ret.res = "ok"
    /\ call.pc = "idle" /\ ~tx_compressor

\* C39: determinism.  For a fixed input, block size, level and format and
\* no flush call, the bytes the parallel compressor has written to the sink
\* when finish returns Ok are the same in every interleaving of the threads
\* and for every worker count: they are a function of the format, the block
\* size and the input alone.
C39_SinkDeterministic ==
    Finished =>
        /\ sink.items = StreamOf(config.format, buffer_size, offered)
        /\ sink.flushed

\* finish has returned Ok on a writer with two workers that was given a
\* dictionary format and an input of three blocks or more.
C39_Witness ==
    /\ Finished
    /\ config.num_threads = 2 /\ needs_dict(config.format)
    /\ Len(dispatched) >= 3
    /\ Len(sink.items) >= 5


\* C40: block boundaries are independent of how the caller splits the input
\* across write calls.  With no flush call, however the input is cut into
\* write calls, every block dispatched before the last one is the block of
\* its position (contents and dictionary), and when finish has returned Ok
\* the blocks dispatched are the blocks of the whole input, with the same
\* contents, dictionaries and is_last flags as for one write call.
C40_ChunkingIndependent ==
    IsPar =>
        /\ \A k \in 1..Len(dispatched) :
              ~dispatched[k].is_last =>
                  dispatched[k] = BlockOf(config.format, buffer_size,
                                          k * buffer_size + 1, k)
        /\ Finished => dispatched = BlocksOf(config.format, buffer_size, offered)

\* A write call of fewer bytes than a block sends the second block or a
\* later one: the block holds bytes of an earlier write call, and the call
\* before it ended off a block boundary.
C40_Witness ==
    /\ IsPar /\ call.op = "write" /\ call.pc = "send_m"
    /\ call.n < buffer_size
    /\ call.m.id >= 2
    /\ Len(call.m.buffer) = buffer_size
    /\ call.m.dictionary # None

====
